---- MODULE Spec2Model ----
(***************************************************************************)
(* The content tree of the static-site generator (pygeon/content_tree.py): *)
(* folders with an ordered children list and an index_page slot, leaves    *)
(* with a parent back-reference, and AggregatedPage.paginate, which splits *)
(* an aggregated page into a chain of PaginatedAggregatedPages.            *)
(*                                                                         *)
(* Objects are numbered.  Python's None is 0.  An exception raised by an   *)
(* operation is recorded in last.err, with the heap as the operation left  *)
(* it at the raise.                                                        *)
(***************************************************************************)
EXTENDS Integers, Sequences, FiniteSets, TLC

\* ---------------------------------------------------------------- bounds
\* longest post list an AggregatedPage of Spec is constructed with
MaxPosts == 2
\* largest num_posts_per_page tried in Spec
MaxPerPage == 2
\* longest post list / largest page size of SpecPaginate (the scenario of
\* 25 posts paginated by 10 lies inside)
MaxScenarioPosts == 25
MaxScenarioPerPage == 11
\* longest entity list handed to group
MaxEntities == 2
MaxPages == 2
\* number of operations performed in a behaviour of Spec
MaxSteps == 2
\* most segments of a path handed to Folder.get
MaxPathLen == 2
\* most posts in the content directory a SiteGenerator is constructed on
MaxSitePosts == 3
\* post files of a content directory whose categories are built
MaxCategoryPosts == 2
\* post files of a content directory whose archive is built
MaxArchivePosts == 2
\* post files of a content directory taken through the whole pipeline
MaxPipelinePosts == 2
\* most characters of a source handed to split_front_matter
MaxSourceLen == 7
\* most characters of a content handed to get_excerpt
MaxContentLen == 4
\* largest fallback_num_characters handed to get_excerpt
MaxFallback == 2

\* ---------------------------------------------------------------- objects
None == 0
\* Root(): the folder named "/"
Root == 1
\* Folder objects: the root and a folder "blog"
StaticFolders == {1, 2}
\* Folder objects that group() constructs: the first in a bare content
\* tree or for the generator's category pages, the second for the
\* generator's archive pages
GroupPool == {3, 400}
\* the folder "notes" of the content directory, inside "blog"
SiteFolders == {5}
Folders == StaticFolders \cup GroupPool \cup SiteFolders
\* PageOrPost objects
PageOrPosts == {4}
\* AggregatedPage objects
AggregatedPages == {6}
\* PaginatedAggregatedPage objects that paginate() constructs
PoolSize == IF MaxScenarioPosts > MaxPages THEN MaxScenarioPosts ELSE MaxPages
PaginatedPool == 7 .. (6 + PoolSize)
\* the PageOrPost objects ContentTree.from_directory makes of the posts of
\* the content directory
SitePosts == 101 .. (100 + MaxSitePosts)
\* the AggregatedPage objects the SiteGenerator constructs: one for each of
\* the two folders, the home page, one for each category, one for each
\* month and each year of the archive
SiteAggregatedPool == 201 .. 299
\* the AggregatedGroupsPages listing the categories and the archive
GroupsPages == {300, 301}
Leaves == PageOrPosts \cup AggregatedPages \cup PaginatedPool
              \cup SitePosts \cup SiteAggregatedPool \cup GroupsPages
Objects == Folders \cup Leaves

\* names given to the objects at construction
StaticName == [n \in Objects |->
    CASE n = 1 -> "/"
      [] n = 2 -> "blog"
      [] n = 4 -> "post"
      [] n = 6 -> "posts"
      [] OTHER -> ""]
\* names group() is called with
GroupNames == {"cats"}

VARIABLES
    nodes,            \* the objects constructed so far
    name,             \* ContentTree.name
    parent,           \* ContentTree._parent
    children,         \* Folder._children
    index_page,       \* Folder._index_page
    aggregated_posts, \* AggregatedPage.aggregated_posts
    pagination,       \* PaginatedAggregatedPage.pagination
    last,             \* the last operation, its arguments and its outcome
    steps,            \* operations performed
    site              \* the SiteGenerator: its settings, what it read of the
                      \* pages and what it built

vars == <<nodes, name, parent, children, index_page, aggregated_posts,
          pagination, last, steps, site>>

\* a Pagination record with nothing in it
NoPagination == [page_number |-> 0, max_page_number |-> 0, first_page |-> None,
                 last_page |-> None, prev_page |-> None, next_page |-> None]

\* the heap: every object field, as one value
Heap == [nodes |-> nodes, name |-> name, parent |-> parent, children |-> children,
         index_page |-> index_page, aggregated_posts |-> aggregated_posts,
         pagination |-> pagination]

Store(h) ==
    /\ nodes' = h.nodes
    /\ name' = h.name
    /\ parent' = h.parent
    /\ children' = h.children
    /\ index_page' = h.index_page
    /\ aggregated_posts' = h.aggregated_posts
    /\ pagination' = h.pagination

\* hasattr(x, "children")
HasChildren(x) == x \in Folders
\* isinstance(x, PaginatedAggregatedPage)
IsPaginated(x) == x \in PaginatedPool

\* copy.deepcopy numbers the copy of object x as x + CopyOffset; a copy has
\* the class and the attributes of its original
CopyOffset == 1000
CopyOf(x) == IF x = None THEN None ELSE x + CopyOffset
\* isinstance(x, Folder)
IsFolder(x) == (x % CopyOffset) \in Folders
\* func(x) for the predicate that accepts the objects in accept and their copies
Accepts(accept, x) == (x % CopyOffset) \in accept

\* ---------------------------------------------------------------- lists
\* x in s
In(x, s) == \E i \in 1..Len(s) : s[i] = x

\* list.remove(x): drops the first occurrence (the caller checks In(x, s))
ListRemove(s, x) ==
    LET i == CHOOSE k \in 1..Len(s) : s[k] = x /\ \A j \in 1..(k-1) : s[j] # x
    IN  SubSeq(s, 1, i-1) \o SubSeq(s, i+1, Len(s))

\* ---------------------------------------------------------------- ContentTree
\* AbstractPageOrPost.is_index_page
is_index_page(h, self) ==
    IF h.parent[self] = None THEN FALSE
    ELSE h.index_page[h.parent[self]] = self

\* parent_to that forgets to take the node out of its old parent's children
parent_to_without_detaching(h, self, new_parent) ==
    IF ~HasChildren(new_parent)
    THEN [h |-> h, err |-> "LeafChildError"]
    ELSE [h |-> [h EXCEPT !.children = [@ EXCEPT ![new_parent] = Append(@, self)],
                          !.parent = [@ EXCEPT ![self] = new_parent]],
          err |-> "none"]

\* ContentTree.parent_to: the heap after the call and the exception raised
parent_to(h, self, new_parent) ==
    IF ~HasChildren(new_parent)
    THEN [h |-> h, err |-> "LeafChildError"]
    ELSE IF h.parent[self] # None /\ ~In(self, h.children[h.parent[self]])
    THEN [h |-> h, err |-> "ValueError"]
    ELSE LET detached ==
                 IF h.parent[self] # None
                 THEN [h.children EXCEPT ![h.parent[self]] = ListRemove(@, self)]
                 ELSE h.children
         IN  [h |-> [h EXCEPT !.children = [detached EXCEPT ![new_parent] = Append(@, self)],
                              !.parent = [@ EXCEPT ![self] = new_parent]],
              err |-> "none"]

\* Folder.add_child
add_child(h, self, child) == parent_to(h, child, self)

\* Folder.index_page (setter)
set_index_page(h, self, new_index_page) ==
    IF new_index_page = None
    THEN [h |-> h, err |-> "AttributeError"]          \* None has no .parent
    ELSE IF h.parent[new_index_page] # None /\ HasChildren(new_index_page)
    THEN [h |-> h, err |-> "AttributeError"]          \* a Folder has no is_index_page
    ELSE IF h.parent[new_index_page] # None /\ is_index_page(h, new_index_page)
    THEN [h |-> h, err |-> "AttributeError"]          \* parent.index_page = None: None has no .parent
    ELSE IF h.parent[new_index_page] # None
            /\ ~In(new_index_page, h.children[h.parent[new_index_page]])
    THEN [h |-> h, err |-> "ValueError"]
    ELSE LET detached ==
                 IF h.parent[new_index_page] # None
                 THEN [h.children EXCEPT ![h.parent[new_index_page]] =
                                             ListRemove(@, new_index_page)]
                 ELSE h.children
         IN  [h |-> [h EXCEPT !.children = detached,
                              !.index_page = [@ EXCEPT ![self] = new_index_page],
                              !.parent = [@ EXCEPT ![new_index_page] = self]],
              err |-> "none"]

\* for p in ps: p.parent_to(new_parent), stopping at the first exception
RECURSIVE ParentAllTo(_, _, _)
ParentAllTo(h, ps, new_parent) ==
    IF ps = <<>> THEN [h |-> h, err |-> "none"]
    ELSE LET r == parent_to(h, Head(ps), new_parent)
         IN  IF r.err # "none" THEN r ELSE ParentAllTo(r.h, Tail(ps), new_parent)

\* ---------------------------------------------------------------- pagination
\* a // b where math.ceil(a / b) is meant
Floor(a, b) == a \div b

\* math.ceil(a / b) for a >= 0, b > 0
Ceil(a, b) == (a + b - 1) \div b

\* range(0, length, step) for step > 0, as a list
Range(length, step) ==
    LET count == Cardinality({i \in 0..(length - 1) : i % step = 0})
    IN  [k \in 1..count |-> (k - 1) * step]

\* the k-th object the next paginate call constructs
FreshPage(h, k) == 6 + Cardinality(h.nodes \cap PaginatedPool) + k

\* posts[i:i+n-1]: a slice one post short
SliceOneShort(posts, i, n) ==
    SubSeq(posts, i + 1, IF i + n - 1 < Len(posts) THEN i + n - 1 ELSE Len(posts))

\* posts[i:i+n], with i counted from 0
Slice(posts, i, n) ==
    SubSeq(posts, i + 1, IF i + n < Len(posts) THEN i + n ELSE Len(posts))

\* the Pagination record when the previous page's next_page is never set
PaginationWithoutNext(pages, k, i, num_posts_per_page, num_posts) ==
    [page_number |-> (i \div num_posts_per_page) + 1,
     max_page_number |-> Ceil(num_posts, num_posts_per_page),
     first_page |-> pages[1],
     last_page |-> pages[Len(pages)],
     prev_page |-> IF i = 0 THEN None ELSE pages[k - 1],
     next_page |-> None]

\* The Pagination record of pages[k], the page made at offset i of the post
\* list, once the loops of paginate are over: page_number and
\* max_page_number from the constructor call, prev_page from it too,
\* next_page set when the following page is appended, first_page and
\* last_page set by the closing loop
PaginationOf(pages, k, i, num_posts_per_page, num_posts) ==
    [page_number |-> (i \div num_posts_per_page) + 1,
     max_page_number |-> Ceil(num_posts, num_posts_per_page),
     first_page |-> pages[1],
     last_page |-> pages[Len(pages)],
     prev_page |-> IF i = 0 THEN None ELSE pages[k - 1],
     next_page |-> IF k < Len(pages) THEN pages[k + 1] ELSE None]

\* The pages AggregatedPage.paginate constructs (lines 672-691): the heap
\* with them in it, none of them attached to the tree yet
PaginatedPages(h, self, num_posts_per_page) ==
    LET posts == h.aggregated_posts[self]
        starts == Range(Len(posts), num_posts_per_page)
        M == Len(starts)
        pages == [k \in 1..M |-> FreshPage(h, k)]
        made == {pages[k] : k \in 1..M}
        Index(p) == CHOOSE k \in 1..M : pages[k] = p
        \* f over the old objects and the new pages
        With(f, New(_)) ==
            [n \in DOMAIN f \cup made |-> IF n \in made THEN New(n) ELSE f[n]]
        NewName(n) == h.name[self]
        NewParent(n) == None
        NewPosts(n) == Slice(posts, starts[Index(n)], num_posts_per_page)
        NewPagination(n) ==
            PaginationOf(pages, Index(n), starts[Index(n)], num_posts_per_page, Len(posts))
    IN  [pages |-> pages,
         h |-> [h EXCEPT
            !.nodes = @ \cup made,
            !.name = With(@, NewName),
            !.parent = With(@, NewParent),
            !.aggregated_posts = With(@, NewPosts),
            !.pagination = With(@, NewPagination)]]

\* PaginatedAggregatedPage without its own paginate
NeverPaginated(self) == FALSE

\* the receiver's class overrides paginate with the one that always raises
AlreadyPaginated(self) == IsPaginated(self)

\* pages[1:] handed to parent_to in both branches
PagesToParentButFirst(receiver_is_index_page, pages) == SubSeq(pages, 2, Len(pages))

\* the pages paginate hands to parent_to: pages[1:] when the receiver is an
\* index page (pages[0] takes its place), all of them otherwise
PagesToParent(receiver_is_index_page, pages) ==
    IF receiver_is_index_page THEN Tail(pages) ELSE pages

\* AggregatedPage.paginate and PaginatedAggregatedPage.paginate: the heap
\* after the call, the pages returned and the exception raised
paginate(h, self, num_posts_per_page) ==
    LET Raise(e, hh) == [h |-> hh, pages |-> <<>>, err |-> e]
    IN
    IF AlreadyPaginated(self) THEN Raise("PaginationError", h)
    ELSE IF num_posts_per_page <= 0 THEN Raise("PaginationError", h)
    ELSE
    LET made == PaginatedPages(h, self, num_posts_per_page)
        pages == made.pages
        F == h.parent[self]
    IN  IF is_index_page(h, self)
        THEN IF pages = <<>> THEN Raise("IndexError", h)       \* pages[0]
             ELSE LET r1 == set_index_page(made.h, F, pages[1])
                      r2 == ParentAllTo(r1.h, PagesToParent(TRUE, pages), F)
                  IN  IF r1.err # "none" THEN Raise(r1.err, r1.h)
                      ELSE IF r2.err # "none" THEN Raise(r2.err, r2.h)
                      ELSE [h |-> r2.h, pages |-> pages, err |-> "none"]
        ELSE LET r == ParentAllTo(made.h, PagesToParent(FALSE, pages), F)
             IN  IF r.err # "none"
                 THEN Raise(r.err, IF F = None THEN h ELSE r.h)
                 ELSE IF F = None THEN Raise("AttributeError", h)  \* None.children
                 ELSE IF ~In(self, r.h.children[F]) THEN Raise("ValueError", r.h)
                 ELSE [h |-> [r.h EXCEPT !.children[F] = ListRemove(@, self)],
                       pages |-> pages, err |-> "none"]

\* ---------------------------------------------------------------- Folder
\* Folder.group: the new folder, the heap after the call, the exception
group(h, self, group_name, entities) ==
    IF entities = <<>> THEN [h |-> h, group |-> None, err |-> "GroupError"]
    ELSE LET g == CHOOSE x \in GroupPool :
                      x \notin h.nodes /\ \A y \in GroupPool \ h.nodes : x <= y
             h0 == [h EXCEPT !.nodes = @ \cup {g},
                             !.name = @ @@ (g :> group_name),
                             !.parent = @ @@ (g :> None),
                             !.children = @ @@ (g :> <<>>),
                             !.index_page = @ @@ (g :> None)]
             r1 == parent_to(h0, g, self)
             r2 == ParentAllTo(r1.h, entities, g)
         IN  IF r1.err # "none" THEN [h |-> r1.h, group |-> None, err |-> r1.err]
             ELSE [h |-> r2.h, group |-> IF r2.err = "none" THEN g ELSE None,
                   err |-> r2.err]

\* for child in to_remove: self.children.remove(child)
RECURSIVE RemoveAll(_, _)
RemoveAll(s, to_remove) ==
    IF to_remove = <<>> THEN s
    ELSE RemoveAll(ListRemove(s, Head(to_remove)), Tail(to_remove))

\* Folder.filter_in_place, func being "the node is in accept".  depth is the
\* room left on the interpreter's stack: a tree that contains itself never
\* stops recursing and ends in RecursionError.
RECURSIVE filter_in_place(_, _, _, _, _, _)
RECURSIVE FilterChildren(_, _, _, _, _, _, _, _)

\* a folder is dropped as soon as it fails the predicate
RemovesFailingFolder(accepted, has_children) == ~accepted

\* not func(child) and not child.children
RemovesFolder(accepted, has_children) == ~accepted /\ ~has_children

FilterChildren(h, self, i, to_remove, accept, include_index_pages, recursive, depth) ==
    IF i > Len(h.children[self])
    THEN [h |-> h, to_remove |-> to_remove, err |-> "none"]
    ELSE LET child == h.children[self][i]
             Continue(hh, rm) ==
                 FilterChildren(hh, self, i + 1,
                                IF rm THEN Append(to_remove, child) ELSE to_remove,
                                accept, include_index_pages, recursive, depth)
         IN  IF IsFolder(child) /\ recursive
             THEN LET r == filter_in_place(h, child, accept, include_index_pages,
                                           TRUE, depth - 1)
                  IN  IF r.err # "none"
                      THEN [h |-> r.h, to_remove |-> to_remove, err |-> r.err]
                      ELSE Continue(r.h, RemovesFolder(Accepts(accept, child),
                                                       r.h.children[child] # <<>>))
             ELSE Continue(h, ~Accepts(accept, child))

filter_in_place(h, self, accept, include_index_pages, recursive, depth) ==
    IF depth = 0 THEN [h |-> h, err |-> "RecursionError"]
    ELSE LET r == FilterChildren(h, self, 1, <<>>, accept, include_index_pages,
                                 recursive, depth)
             pruned == [r.h EXCEPT !.children[self] = RemoveAll(@, r.to_remove)]
         IN  IF r.err # "none" THEN [h |-> r.h, err |-> r.err]
             ELSE [h |-> IF include_index_pages /\ pruned.index_page[self] # None
                            /\ ~Accepts(accept, pruned.index_page[self])
                         THEN [pruned EXCEPT !.index_page[self] = None]
                         ELSE pruned,
                   err |-> "none"]

\* the objects the attributes of n refer to
Refs(h, n) ==
    IF n \notin h.nodes THEN {}
    ELSE ({h.parent[n]}
          \cup (IF n \in DOMAIN h.children
                THEN {h.children[n][i] : i \in 1..Len(h.children[n])} \cup {h.index_page[n]}
                ELSE {})
          \cup (IF n \in DOMAIN h.aggregated_posts
                THEN {h.aggregated_posts[n][i] : i \in 1..Len(h.aggregated_posts[n])}
                ELSE {})
          \cup (IF n \in DOMAIN h.pagination
                THEN {h.pagination[n].first_page, h.pagination[n].last_page,
                      h.pagination[n].prev_page, h.pagination[n].next_page}
                ELSE {})) \ {None}

\* every object reachable from those of S
RECURSIVE Reach(_, _)
Reach(h, S) ==
    LET T == S \cup UNION {Refs(h, n) : n \in S}
    IN  IF T = S THEN S ELSE Reach(h, T)

\* "copy = self": no copy at all
SameObject(h, self) == [h |-> h, node |-> self]

\* copy.deepcopy(self): a copy of every object reachable from self (its
\* ancestors too, through _parent), the references between them carried
\* over to the copies
deepcopy(h, self) ==
    LET R == Reach(h, {self}) \cap h.nodes
        Copies(D) == {CopyOf(n) : n \in R \cap D}
        CopySeq(q) == [i \in 1..Len(q) |-> CopyOf(q[i])]
    IN  [node |-> CopyOf(self),
         h |-> [nodes |-> h.nodes \cup Copies(h.nodes),
                name |-> [c \in Copies(DOMAIN h.name) |-> h.name[c - CopyOffset]] @@ h.name,
                parent |-> [c \in Copies(DOMAIN h.parent) |->
                               CopyOf(h.parent[c - CopyOffset])] @@ h.parent,
                children |-> [c \in Copies(DOMAIN h.children) |->
                                 CopySeq(h.children[c - CopyOffset])] @@ h.children,
                index_page |-> [c \in Copies(DOMAIN h.index_page) |->
                                   CopyOf(h.index_page[c - CopyOffset])] @@ h.index_page,
                aggregated_posts |-> [c \in Copies(DOMAIN h.aggregated_posts) |->
                                         CopySeq(h.aggregated_posts[c - CopyOffset])]
                                     @@ h.aggregated_posts,
                pagination |-> [c \in Copies(DOMAIN h.pagination) |->
                                   LET pg == h.pagination[c - CopyOffset]
                                   IN  [pg EXCEPT !.first_page = CopyOf(@),
                                                  !.last_page = CopyOf(@),
                                                  !.prev_page = CopyOf(@),
                                                  !.next_page = CopyOf(@)]]
                               @@ h.pagination]]

\* ---------------------------------------------------------------- paths
\* A pathlib.Path is the list of its segments below "/"; Path("/") is <<>>.
\* A path that could not be computed is <<"!", exception>>.
PathError(e) == <<"!", e>>
IsPathError(p) == Len(p) > 0 /\ p[1] = "!"

\* Path.__truediv__: an absolute segment replaces the path, an empty one adds nothing
PathJoin(p, segment) ==
    IF IsPathError(p) THEN p
    ELSE IF segment = "/" THEN <<>>
    ELSE IF segment = "" THEN p
    ELSE Append(p, segment)

\* frames a recursion over the tree may use: more than any chain of parents
\* has (a chain is a leaf below distinct folders), so only a tree that
\* contains itself runs out of them
StackDepth == Cardinality(Folders) + 2

\* a page segment that forgets the number
PageSegmentUnnumbered(page_number) == "page"

\* f"page{int(page_number)}"
PageSegment(page_number) == "page" \o ToString(page_number)

\* ContentTree.path and PaginatedAggregatedPage.path
RECURSIVE path_rec(_, _, _)
path_rec(h, self, depth) ==
    IF depth = 0 THEN PathError("RecursionError")
    ELSE IF IsPaginated(self)
    THEN IF h.parent[self] = None THEN PathError("AttributeError")
         ELSE IF is_index_page(h, h.pagination[self].first_page)
         THEN PathJoin(path_rec(h, h.parent[self], depth - 1),
                       PageSegment(h.pagination[self].page_number))
         ELSE IF h.pagination[self].max_page_number = 1
         THEN PathJoin(path_rec(h, h.parent[self], depth - 1), h.name[self])
         ELSE PathJoin(PathJoin(path_rec(h, h.parent[self], depth - 1), h.name[self]),
                       PageSegment(h.pagination[self].page_number))
    ELSE IF h.parent[self] = None THEN <<>>
    ELSE PathJoin(path_rec(h, h.parent[self], depth - 1), h.name[self])

path(h, self) == path_rec(h, self, StackDepth)

\* ContentTree.href
href(h, self) ==
    IF self \in Leaves /\ is_index_page(h, self)
    THEN path(h, h.parent[self])
    ELSE path(h, self)

\* Folder.filter: the heap with the filtered copy in it, and the copy
filter(h, self, accept, include_index_pages, recursive) ==
    LET copy == deepcopy(h, self)
        r == filter_in_place(copy.h, copy.node, accept, include_index_pages,
                             recursive, StackDepth)
    IN  [h |-> r.h, node |-> IF r.err = "none" THEN copy.node ELSE None, err |-> r.err]

\* the i-th post an AggregatedPage is constructed with: a PageOrPost that
\* stays outside the tree, numbered 100 + i (paginate reads no field of it)
Post(i) == 100 + i

\* ---------------------------------------------------------------- Folder.get
\* f"{{{i}}}": the token for the child at position i, counted from 0
PositionToken(i) == "{" \o ToString(i) \o "}"

\* the tokens a path segment is compared with for the child at list index i
\* (counted from 1) of folder self
TokensOf(h, self, i) ==
    LET child == h.children[self][i]
    IN  {PositionToken(i - 1), h.name[child]}
            \cup (IF IsPaginated(child)
                   THEN {PageSegment(h.pagination[child].page_number)} ELSE {})

\* Folder.get on Path(path).parts: the node returned and the exception raised
RECURSIVE get(_, _, _)
get(h, self, path_parts) ==
    IF path_parts = <<>> THEN [h |-> h, node |-> self, err |-> "none"]
    ELSE IF path_parts[1] = "/" /\ Len(path_parts) = 1
    THEN [h |-> h, node |-> self, err |-> "none"]
    ELSE LET parts == IF path_parts[1] = "/" THEN Tail(path_parts) ELSE path_parts
             first_part == parts[1]
             hits == {i \in 1..Len(h.children[self]) : first_part \in TokensOf(h, self, i)}
         IN  IF hits = {} THEN [h |-> h, node |-> None, err |-> "LookupError"]
             ELSE LET next_step ==
                          h.children[self][CHOOSE i \in hits : \A j \in hits : i <= j]
                  IN  IF next_step \in Folders
                      THEN get(h, next_step, Tail(parts))
                      ELSE [h |-> h, node |-> next_step, err |-> "none"]

\* no SiteGenerator has been constructed
NoSite == [constructed |-> FALSE]

NoOp == [op |-> "init", node |-> None, arg |-> 0, args |-> <<>>, err |-> "none",
         pages |-> <<>>, changed |-> TRUE]

\* the objects as their constructors leave them: no parent, no children, no
\* index page, the AggregatedPage holding posts
Constructed(posts) ==
    LET made == StaticFolders \cup PageOrPosts \cup AggregatedPages
    IN  [nodes |-> made,
         name |-> [n \in made |-> StaticName[n]],
         parent |-> [n \in made |-> None],
         children |-> [f \in StaticFolders |-> <<>>],
         index_page |-> [f \in StaticFolders |-> None],
         aggregated_posts |-> [n \in AggregatedPages |-> posts],
         pagination |-> [n \in {} |-> NoPagination]]

\* The trees a build script makes of them before it paginates: "blog" below
\* the root, the PageOrPost a child of folder F, and the AggregatedPage the
\* index page of F, or a child of F after the PageOrPost, or a child of F
\* before it.  "none" is no tree at all.
Roles == {"index", "last", "first"}
Layout(h, F, role) ==
    LET h1 == add_child(h, Root, 2).h
    IN  CASE role = "index" -> set_index_page(add_child(h1, F, 4).h, F, 6).h
          [] role = "last"  -> add_child(add_child(h1, F, 4).h, F, 6).h
          [] role = "first" -> add_child(add_child(h1, F, 6).h, F, 4).h
          [] OTHER -> h

\* the variables hold heap h and no operation has run
Start(h) ==
    /\ nodes = h.nodes
    /\ name = h.name
    /\ parent = h.parent
    /\ children = h.children
    /\ index_page = h.index_page
    /\ aggregated_posts = h.aggregated_posts
    /\ pagination = h.pagination
    /\ last = NoOp
    /\ steps = 0
    /\ site = NoSite


Init ==
    \E l \in 0..MaxPosts, F \in StaticFolders, role \in Roles \cup {"none"} :
        Start(Layout(Constructed([i \in 1..l |-> Post(i)]), F, role))

\* One operation: the heap it leaves and the record of its outcome.  steps
\* counts the operations that changed the heap.  An operation that left the
\* heap as it was (it raised before its first write, or had nothing to do)
\* ends the behaviour: carrying on from it is carrying on from the state
\* before it.
Do(r, op, node, arg, args, pages) ==
    /\ last.changed
    /\ steps < MaxSteps
    /\ Store(r.h)
    /\ last' = [op |-> op, node |-> node, arg |-> arg, args |-> args,
                err |-> r.err, pages |-> pages, changed |-> r.h # Heap]
    /\ steps' = IF r.h # Heap THEN steps + 1 ELSE steps
    /\ UNCHANGED site

ParentTo(self, new_parent) ==
    Do(parent_to(Heap, self, new_parent), "parent_to", self, new_parent, <<>>, <<>>)

AddChild(self, child) ==
    Do(add_child(Heap, self, child), "add_child", child, self, <<>>, <<>>)

SetIndexPage(self, new_index_page) ==
    Do(set_index_page(Heap, self, new_index_page), "index_page", new_index_page, self,
       <<>>, <<>>)

\* max_pages bounds the pages constructed in a behaviour
Paginate(self, num_posts_per_page, max_pages) ==
    /\ num_posts_per_page > 0 /\ ~IsPaginated(self) =>
          Cardinality(nodes \cap PaginatedPool)
            + Len(Range(Len(aggregated_posts[self]), num_posts_per_page)) <= max_pages
    /\ LET r == paginate(Heap, self, num_posts_per_page)
       IN  Do(r, "paginate", self, num_posts_per_page, <<>>, r.pages)

Group(self, group_name, entities) ==
    /\ entities # <<>> => GroupPool \ nodes # {}
    /\ Do(group(Heap, self, group_name, entities), "group", self, 0, entities, <<>>)

FilterInPlace(self, accept, include_index_pages, recursive) ==
    Do(filter_in_place(Heap, self, accept, include_index_pages, recursive, StackDepth),
       "filter_in_place", self, 0, <<>>, <<>>)

\* the predicates filter_in_place is called with, each as the set it accepts
AcceptSets == {{}, Folders, Objects \ {4}}

\* the entity lists group is called with: up to MaxEntities distinct
\* objects, in the order of their construction
EntityLists ==
    {es \in UNION {[1..l -> nodes] : l \in 0..MaxEntities} :
        \A i \in 1..(Len(es) - 1) : es[i] < es[i + 1]}

Next ==
    \/ \E self \in nodes, new_parent \in nodes \cup {None} : ParentTo(self, new_parent)
    \/ \E self \in nodes \cap Folders, child \in nodes : AddChild(self, child)
    \/ \E self \in nodes \cap Folders, p \in (nodes \cap Leaves) \cup {None} :
          SetIndexPage(self, p)
    \/ \E self \in nodes \cap (AggregatedPages \cup PaginatedPool),
          n \in (-1)..MaxPerPage : Paginate(self, n, MaxPages)
    \/ \E self \in nodes \cap Folders, g \in GroupNames, es \in EntityLists :
          Group(self, g, es)
    \/ \E self \in nodes \cap Folders, accept \in AcceptSets,
          inc \in BOOLEAN, rec \in BOOLEAN : FilterInPlace(self, accept, inc, rec)

Spec == Init /\ [][Next]_vars

\* ---------------------------------------------------------------- SpecPaginate
\* paginate alone, on post lists as long as the scenario's

InitPaginate ==
    \E l \in 0..MaxScenarioPosts, F \in StaticFolders, role \in Roles :
        Start(Layout(Constructed([i \in 1..l |-> Post(i)]), F, role))

NextPaginate ==
    \/ \E n \in (-1)..MaxScenarioPerPage : steps = 0 /\ Paginate(6, n, PoolSize)
    \/ \E self \in nodes \cap PaginatedPool, n \in {-1, 1, MaxScenarioPerPage} :
          Paginate(self, n, PoolSize)

SpecPaginate == InitPaginate /\ [][NextPaginate]_vars

\* ---------------------------------------------------------------- SpecGet
\* Folder.get on the trees of Init and on those a paginate call makes of them

\* the segments paths are made of: names, position tokens, page tokens and
\* a name no node has
Segments == {"blog", "post", "posts", "{0}", "{1}", "page1", "page2", "nope"}

\* Path(path).parts for the paths tried: up to MaxPathLen segments, after
\* the root "/" or not
PathParts ==
    LET relative == UNION {[1..l -> Segments] : l \in 0..MaxPathLen}
    IN  relative \cup {<<"/">> \o p : p \in relative}

Get(self, path_parts) ==
    LET r == get(Heap, self, path_parts)
    IN  Do(r, "get", self, r.node, path_parts, <<>>)

NextGet ==
    \/ \E n \in 1..MaxPerPage : steps = 0 /\ Paginate(6, n, MaxPages)
    \/ \E self \in nodes \cap Folders, path_parts \in PathParts : Get(self, path_parts)

SpecGet == Init /\ [][NextGet]_vars

\* ---------------------------------------------------------------- SpecFilter
\* filter and filter_in_place, once, on the trees of Init and on those one
\* parent_to, group or paginate call makes of them

FilterOps == {"filter", "filter_in_place"}

\* the predicates tried, each as the set of objects it accepts: nothing,
\* the folders, everything but the PageOrPost, the leaves, everything
Predicates == AcceptSets \cup {Leaves, Objects}

\* filter_in_place, its arguments kept in last.args
FilterInPlaceOnce(self, accept, include_index_pages, recursive) ==
    /\ last.op \notin FilterOps
    /\ Do(filter_in_place(Heap, self, accept, include_index_pages, recursive, StackDepth),
          "filter_in_place", self, self, <<accept, include_index_pages, recursive>>, <<>>)

\* filter: last.arg is the copy returned
Filter(self, accept, include_index_pages, recursive) ==
    /\ last.op \notin FilterOps
    /\ LET r == filter(Heap, self, accept, include_index_pages, recursive)
       IN  Do(r, "filter", self, r.node, <<accept, include_index_pages, recursive>>, <<>>)

NextFilter ==
    \/ \E self \in nodes, new_parent \in nodes :
          steps = 0 /\ ParentTo(self, new_parent)
    \/ \E self \in nodes \cap Folders, g \in GroupNames, es \in EntityLists :
          steps = 0 /\ Group(self, g, es)
    \/ \E n \in 1..MaxPerPage : steps = 0 /\ Paginate(6, n, MaxPages)
    \/ \E self \in nodes \cap Folders, accept \in Predicates,
          inc \in BOOLEAN, rec \in BOOLEAN : FilterInPlaceOnce(self, accept, inc, rec)
    \/ \E self \in nodes \cap Folders, accept \in Predicates,
          inc \in BOOLEAN, rec \in BOOLEAN : Filter(self, accept, inc, rec)

SpecFilter == Init /\ [][NextFilter]_vars

\* ---------------------------------------------------------------- content_processing
\* A str is the list of its characters.  "x=1" stands for the text of one
\* assignment statement, a piece of text that holds no delimiter and no
\* line break.
Newline == "\n"
Characters == {"+", "-", "x=1", Newline}

\* str.splitlines(): the lines without their line breaks; a line break at
\* the very end opens no further line
RECURSIVE splitlines(_)
splitlines(source) ==
    IF source = <<>> THEN <<>>
    ELSE LET breaks == {i \in 1..Len(source) : source[i] = Newline}
         IN  IF breaks = {} THEN <<source>>
             ELSE LET first == CHOOSE i \in breaks : \A j \in breaks : i <= j
                  IN  <<SubSeq(source, 1, first - 1)>>
                          \o splitlines(SubSeq(source, first + 1, Len(source)))

\* "\n".join(lines)
RECURSIVE JoinLines(_)
JoinLines(lines) ==
    IF lines = <<>> THEN <<>>
    ELSE IF Len(lines) = 1 THEN lines[1]
    ELSE lines[1] \o <<Newline>> \o JoinLines(Tail(lines))

\* set(line) == set([front_matter_delimiter])
OnlyDelimiter(line, front_matter_delimiter) ==
    {line[i] : i \in 1..Len(line)} = {front_matter_delimiter}

\* as_lines[i+1:], the closing line included
BodyLinesWithClosing(as_lines, i) == SubSeq(as_lines, i + 2, Len(as_lines))

\* as_lines[i+2:], i being the index of the closing line in as_lines[1:]
BodyLines(as_lines, i) == SubSeq(as_lines, i + 3, Len(as_lines))

\* front_matter += line + "\n" for each of lines
RECURSIVE FrontMatterText(_)
FrontMatterText(lines) ==
    IF lines = <<>> THEN <<>>
    ELSE lines[1] \o <<Newline>> \o FrontMatterText(Tail(lines))

\* exec(front_matter, {}, evaluated_front_matter): the names assigned, or
\* the exception for a line that is no statement
exec(front_matter) ==
    LET lines == splitlines(front_matter)
        statements == {i \in 1..Len(lines) : lines[i] # <<>>}
    IN  IF \E i \in statements : lines[i] # <<"x=1">>
        THEN [evaluated |-> {}, err |-> "SyntaxError"]
        ELSE [evaluated |-> IF statements = {} THEN {} ELSE {"x"}, err |-> "none"]

\* split_front_matter: the text handed to exec, the names it assigned, the
\* content returned and the exception raised
split_front_matter(source, front_matter_delimiter) ==
    IF source = <<>>
    THEN [front_matter |-> <<>>, evaluated |-> {}, content |-> <<>>, err |-> "none"]
    ELSE
    LET as_lines == splitlines(source)
    IN  IF ~OnlyDelimiter(as_lines[1], front_matter_delimiter)
        THEN [front_matter |-> <<>>, evaluated |-> {}, content |-> source, err |-> "none"]
        ELSE
        LET rest == Tail(as_lines)
            closing == {i \in 0..(Len(rest) - 1) :
                           OnlyDelimiter(rest[i + 1], front_matter_delimiter)}
            found == closing # {}
            i == IF found THEN CHOOSE k \in closing : \A j \in closing : k <= j
                 ELSE Len(rest)
            front_matter == FrontMatterText(SubSeq(rest, 1, i))
            content == IF found THEN JoinLines(BodyLines(as_lines, i)) ELSE <<>>
            ran == exec(front_matter)
        IN  [front_matter |-> front_matter, evaluated |-> ran.evaluated,
             content |-> IF ran.err = "none" THEN content ELSE <<>>,
             err |-> ran.err]

\* AbstractPageOrPost.parse_front_matter_and_content as process_content_tree
\* and render call it: with no argument, so the source goes to
\* split_front_matter with that function's default delimiter
default_front_matter_delimiter == "+"
parse_front_matter_and_content(source) ==
    split_front_matter(source, default_front_matter_delimiter)

\* the default excerpt tags, and an HTML tag: each one piece of text
excerpt_start_tag == "<!--excerpt-start-->"
excerpt_end_tag == "<!--excerpt-end-->"
HtmlTag == "<b>"

\* what the regular expression of remove_html matches: tags, the excerpt
\* tags among them
IsHtml(char) == char \in {HtmlTag, excerpt_start_tag, excerpt_end_tag}

\* remove_html: re.sub(clean_re, "", x).replace("\n", " ")
remove_html(x) ==
    LET kept == SelectSeq(x, LAMBDA char : ~IsHtml(char))
    IN  [i \in 1..Len(kept) |-> IF kept[i] = Newline THEN " " ELSE kept[i]]

\* the index, counted from 1, of the first tag in text
FirstOf(text, tag) ==
    CHOOSE i \in 1..Len(text) : text[i] = tag /\ \A j \in 1..(i - 1) : text[j] # tag

\* text.split(tag, 1)[1]
AfterFirst(text, tag) == SubSeq(text, FirstOf(text, tag) + 1, Len(text))

\* text.split(tag, 1)[0], the whole text when the tag is not in it
BeforeFirst(text, tag) ==
    IF In(tag, text) THEN SubSeq(text, 1, FirstOf(text, tag) - 1) ELSE text

\* "".join(text.splitlines())
WithoutLineBreaks(text) == SelectSeq(text, LAMBDA char : char # Newline)

\* the value of i after
\*   i = 0
\*   for i, char in enumerate(rest):
\*       if char == " ": break
LoopIndex(rest) ==
    IF rest = <<>> THEN 0
    ELSE IF In(" ", rest) THEN FirstOf(rest, " ") - 1
    ELSE Len(rest) - 1

\* get_excerpt with the default excerpt tags
get_excerpt(content, remove_html_tags, fallback_num_characters, suffix) ==
    LET excerpt ==
            IF In(excerpt_start_tag, content) \/ In(excerpt_end_tag, content)
            THEN LET started == IF In(excerpt_start_tag, content)
                                THEN AfterFirst(content, excerpt_start_tag)
                                ELSE content
                     ended == IF In(excerpt_end_tag, content)
                              THEN BeforeFirst(started, excerpt_end_tag)
                              ELSE started
                 IN  IF remove_html_tags THEN remove_html(ended) ELSE ended
            ELSE LET clean_content == remove_html(content)
                     rest == SubSeq(clean_content, fallback_num_characters + 1,
                                    Len(clean_content))
                 IN  SubSeq(clean_content, 1,
                            IF fallback_num_characters + LoopIndex(rest) < Len(clean_content)
                            THEN fallback_num_characters + LoopIndex(rest)
                            ELSE Len(clean_content))
    IN  [excerpt |-> WithoutLineBreaks(excerpt) \o suffix, err |-> "none"]

\* ---------------------------------------------------------------- SiteGenerator
\* Bind([v \in {value} |-> body]) is body with the local variable v
\* assigned value once and then read
Bind(assignment) == assignment[CHOOSE value \in DOMAIN assignment : TRUE]

\* isinstance(x, PageOrPost)
IsPageOrPost(x) == (x % CopyOffset) \in PageOrPosts \cup SitePosts

\* the default is_page_func: isinstance(x.parent, Root)
is_page_func(h, x) == h.parent[x] = Root

\* str(path)
RECURSIVE JoinSegments(_)
JoinSegments(p) == IF p = <<>> THEN "" ELSE "/" \o Head(p) \o JoinSegments(Tail(p))
PathString(p) == IF p = <<>> THEN "/" ELSE JoinSegments(p)

\* Folder.flat
RECURSIVE flat(_, _, _)
RECURSIVE FlatOf(_, _, _)
FlatOf(h, cs, include_index_pages) ==
    IF cs = <<>> THEN <<>>
    ELSE <<Head(cs)>>
         \o (IF IsFolder(Head(cs)) THEN flat(h, Head(cs), include_index_pages) ELSE <<>>)
         \o FlatOf(h, Tail(cs), include_index_pages)

flat(h, self, include_index_pages) ==
    FlatOf(h, h.children[self], include_index_pages)
    \o (IF include_index_pages /\ h.index_page[self] # None
        THEN <<h.index_page[self]>> ELSE <<>>)

\* Folder.leaves
leaves(h, self, include_index_pages) ==
    SelectSeq(flat(h, self, include_index_pages), LAMBDA x : ~IsFolder(x))

\* sorted(todo, reverse=True, key=...), key[x] being the sort key of x: the
\* sort is stable, elements with equal keys stay in the order they came in
SortedDescending(todo, key) ==
    LET Position(i) ==
            1 + Cardinality({j \in 1..Len(todo) :
                    \/ key[todo[j]] > key[todo[i]]
                    \/ key[todo[j]] = key[todo[i]] /\ j < i})
    IN  [k \in 1..Len(todo) |-> todo[CHOOSE i \in 1..Len(todo) : Position(i) = k]]

\* a publish date is the number YYYYMMDD
Year(date) == date \div 10000
Month(date) == (date \div 100) % 100

\* the last modified time of blog/index.md, which has no publish date in
\* its front matter
IndexFileDate == 20240101

\* the name of the i-th post file of the content directory
PostName(i) == "p" \o ToString(i)

\* ContentTree.from_directory on a content directory that holds the folder
\* "blog", the folder "notes" inside it, post file i in folder where[i],
\* and blog/index.md or not: the entries of a directory are visited in the
\* order of their names (index.md, notes, p1.md, ...)
from_directory(directory) ==
    LET posts == [i \in 1..directory.posts |-> Post(i)]
        custom_index == IF directory.blog_index THEN {4} ELSE {}
        folders == {Root, 2, 5}
        made == folders \cup {Post(i) : i \in 1..directory.posts} \cup custom_index
        PostsIn(F) == SelectSeq(posts, LAMBDA x : directory.where[x - 100] = F)
        h0 == [nodes |-> made,
               name |-> [x \in made |->
                   CASE x = Root -> "/"
                     [] x = 2 -> "blog"
                     [] x = 5 -> "notes"
                     [] x = 4 -> "blog"          \* CustomIndexPage: parent.name
                     [] OTHER -> PostName(x - 100)],
               parent |-> [x \in made |-> None],
               children |-> [f \in folders |-> <<>>],
               index_page |-> [f \in folders |-> None],
               aggregated_posts |-> [x \in {} |-> <<>>],
               pagination |-> [x \in {} |-> NoPagination]]
        \* blog/index.md: CustomIndexPage(parent), then parent.index_page = child
        WithIndex(h) ==
            IF directory.blog_index
            THEN Bind([hh \in {parent_to(h, 4, 2).h} |-> set_index_page(hh, 2, 4).h])
            ELSE h
        \* folder.add_child(subfolder), then add_child for the post files of folder
        Filled(h, folder, subfolder) ==
            Bind([hh \in {add_child(h, folder, subfolder).h} |->
                     ParentAllTo(hh, PostsIn(folder), folder).h])
    IN  Bind([a \in {h0} |->
        Bind([b \in {WithIndex(a)} |->
        Bind([c \in {ParentAllTo(b, PostsIn(5), 5).h} |->
        Bind([d \in {Filled(c, 2, 5)} |-> Filled(d, Root, 2)])])])])

\* the nodes from_directory calls post_create_callback with, in the order of
\* the calls: the root first, a folder after what is inside it
FromDirectoryCallbacks(directory) ==
    LET posts == [i \in 1..directory.posts |-> Post(i)]
        PostsIn(F) == SelectSeq(posts, LAMBDA x : directory.where[x - 100] = F)
    IN  <<Root>> \o (IF directory.blog_index THEN <<4>> ELSE <<>>)
            \o PostsIn(5) \o <<5>> \o PostsIn(2) \o <<2>> \o PostsIn(Root)

\* SiteGenerator.__init__: the settings kept, the content tree read
site_generator_init(h, config, directory) ==
    IF config.locally_aggregate_whitelist # {} /\ config.locally_aggregate_blacklist # {}
    THEN [h |-> h, site |-> NoSite, err |-> "AggregateError"]
    ELSE Bind([tree \in {from_directory(directory)} |->
         LET read == tree.nodes \ Folders
         IN  [h |-> tree,
              site |-> [constructed |-> TRUE,
                        locally_aggregate_whitelist |-> config.locally_aggregate_whitelist,
                        locally_aggregate_blacklist |-> config.locally_aggregate_blacklist,
                        globally_aggregate_whitelist |-> config.globally_aggregate_whitelist,
                        globally_aggregate_blacklist |-> config.globally_aggregate_blacklist,
                        num_posts_per_page |-> config.num_posts_per_page,
                        \* what the front matter of each source file holds
                        front_matter |-> [x \in read |->
                            IF x = 4 THEN [publish_date |-> None,
                                           category |-> directory.index_category]
                            ELSE [publish_date |-> directory.dates[x - 100],
                                  category |-> directory.categories[x - 100]]],
                        \* site_generator_data["publish_date"] of each page
                        publish_date |-> [x \in {} |-> None],
                        \* None is <<>>, a value v is <<v>>
                        globally_aggregated_posts |-> <<>>,
                        categories |-> <<>>,
                        archive |-> <<>>,
                        \* the nodes callbacks.post_content_tree_entity_create
                        \* has been called with
                        post_content_tree_entity_create |->
                            FromDirectoryCallbacks(directory),
                        navigation |-> <<>>,
                        \* the files render wrote into the build directory
                        build_directory |-> <<>>],
              err |-> "none"]])

\* SiteGenerator.process_content_tree
process_content_tree(h, s) ==
    LET pages == leaves(h, Root, TRUE)
        read == {pages[i] : i \in 1..Len(pages)}
    IN  [h |-> h,
         site |-> [s EXCEPT !.publish_date =
                      [x \in read |->
                          IF s.front_matter[x].publish_date # None
                          THEN s.front_matter[x].publish_date
                          ELSE IndexFileDate]],
         err |-> "none"]

\* the k-th AggregatedPage the generator constructs next
FreshAggregated(h) == 201 + Cardinality(h.nodes \cap SiteAggregatedPool)

\* AggregatedPage(name, posts)
NewAggregatedPage(h, page_name, posts) ==
    LET a == FreshAggregated(h)
    IN  [node |-> a,
         h |-> [h EXCEPT !.nodes = @ \cup {a},
                         !.name = @ @@ (a :> page_name),
                         !.parent = @ @@ (a :> None),
                         !.aggregated_posts = @ @@ (a :> posts)]]

\* x.name not in blacklist and str(x.path) not in blacklist
NotBlacklisted(h, x, blacklist) ==
    h.name[x] \notin blacklist /\ PathString(path(h, x)) \notin blacklist

\* x.name in whitelist or str(x.path) in whitelist
Whitelisted(h, x, whitelist) ==
    h.name[x] \in whitelist \/ PathString(path(h, x)) \in whitelist

\* (x.name in whitelist or str(x.path)) in whitelist: what is looked up in
\* the whitelist is True when the name is in it, and the path otherwise;
\* the whitelist holds strings, none of which equals True
NameInOrPathWhitelisted(h, x, whitelist) ==
    IF h.name[x] \in whitelist THEN FALSE
    ELSE PathString(path(h, x)) \in whitelist

\* folder.index_page = AggregatedPage(folder.name, sorted(...)) and its
\* pagination: the body of the loop of aggregate_posts, and its last lines
\* with the root as folder and "home" as name
AggregateInto(h, s, folder, page_name, posts) ==
    Bind([made \in {NewAggregatedPage(h, page_name,
             SortedDescending(posts, s.publish_date))} |->
    Bind([r1 \in {set_index_page(made.h, folder, made.node)} |->
         IF r1.err # "none" \/ s.num_posts_per_page <= 0
         THEN [h |-> r1.h, err |-> r1.err, called |-> <<made.node>>]
         ELSE Bind([r2 \in {paginate(r1.h, made.node, s.num_posts_per_page)} |->
                   [h |-> r2.h, err |-> r2.err,
                    called |-> <<made.node>> \o r2.pages]])])])

\* the loop of aggregate_posts over to_locally_aggregate
RECURSIVE LocallyAggregate(_, _, _)
LocallyAggregate(h, s, folders) ==
    IF folders = <<>> THEN [h |-> h, err |-> "none", called |-> <<>>]
    ELSE Bind([r \in {AggregateInto(h, s, Head(folders), h.name[Head(folders)],
                            SelectSeq(h.children[Head(folders)], IsPageOrPost))} |->
              IF r.err # "none" THEN r
              ELSE Bind([rest \in {LocallyAggregate(r.h, s, Tail(folders))} |->
                        [rest EXCEPT !.called = r.called \o @]])])

\* to_locally_aggregate
ToLocallyAggregate(h, s) ==
    LET folders_with_no_index ==
            SelectSeq(flat(h, Root, FALSE),
                      LAMBDA x : IsFolder(x) /\ h.index_page[x] = None)
        blacklisted ==
            IF s.locally_aggregate_blacklist # {}
            THEN SelectSeq(folders_with_no_index,
                           LAMBDA x : NotBlacklisted(h, x, s.locally_aggregate_blacklist))
            ELSE folders_with_no_index
    IN  IF s.locally_aggregate_whitelist # {}
        THEN SelectSeq(folders_with_no_index,
                       LAMBDA x : Whitelisted(h, x, s.locally_aggregate_whitelist))
        ELSE blacklisted

\* to_globally_aggregate
ToGloballyAggregate(h, s) ==
    LET candidates ==
            SelectSeq(leaves(h, Root, FALSE),
                      LAMBDA x : ~is_page_func(h, x) /\ ~IsPaginated(x))
        not_blacklisted ==
            IF s.globally_aggregate_blacklist # {}
            THEN SelectSeq(candidates,
                     LAMBDA x : /\ h.parent[x] # None
                                /\ NotBlacklisted(h, h.parent[x],
                                                  s.globally_aggregate_blacklist))
            ELSE candidates
    IN  IF s.globally_aggregate_whitelist # {}
        THEN SelectSeq(not_blacklisted,
                 LAMBDA x : /\ h.parent[x] # None
                            /\ NameInOrPathWhitelisted(h, h.parent[x],
                                                       s.globally_aggregate_whitelist))
        ELSE not_blacklisted

\* SiteGenerator.aggregate_posts.  locally is whether the local pass went
\* through.
aggregate_posts(h, s) ==
    Bind([to_locally_aggregate \in {ToLocallyAggregate(h, s)} |->
    Bind([local \in {LocallyAggregate(h, s, to_locally_aggregate)} |->
         IF local.err # "none"
         THEN [h |-> local.h, site |-> s, err |-> local.err, locally |-> FALSE]
         ELSE Bind([to_globally_aggregate \in {ToGloballyAggregate(local.h, s)} |->
              LET s1 == [s EXCEPT !.globally_aggregated_posts = <<to_globally_aggregate>>,
                                  !.post_content_tree_entity_create = @ \o local.called]
              IN  IF local.h.index_page[Root] # None
                  THEN [h |-> local.h, site |-> s1, err |-> "none", locally |-> TRUE]
                  ELSE Bind([r \in {AggregateInto(local.h, s, Root, "home",
                                                   to_globally_aggregate)} |->
                            [h |-> r.h,
                             site |-> [s1 EXCEPT !.post_content_tree_entity_create =
                                                     @ \o r.called],
                             err |-> r.err, locally |-> TRUE]])])])])

\* ---------------------------------------------------------------- categories
\* category_accessor: getattr(x, "front_matter", {}).get("category", "")
category_accessor(s, x) == s.front_matter[x].category

\* "Uncategorized", the default uncategorized_name
uncategorized_name == "Uncategorized"

\* "categories", the default category_list_page_name
category_list_page_name == "categories"

\* the keys of a dict filled by setdefault(key[x], []).append(x) over todo,
\* in insertion order
KeysInOrder(todo, key) ==
    LET firsts == {i \in 1..Len(todo) : \A j \in 1..(i - 1) : key[todo[j]] # key[todo[i]]}
    IN  [k \in 1..Cardinality(firsts) |->
            key[todo[CHOOSE i \in firsts : Cardinality({j \in firsts : j < i}) = k - 1]]]

\* that dict: its keys in insertion order and the list under each key
GroupedBy(todo, key) ==
    LET order == KeysInOrder(todo, key)
    IN  [order |-> order,
         posts |-> [under \in {order[k] : k \in 1..Len(order)} |->
                       SelectSeq(todo, LAMBDA x : key[x] = under)]]

\* the posts build_category_pages groups
CategoryCandidates(h) ==
    SelectSeq(leaves(h, Root, TRUE), LAMBDA x : IsPageOrPost(x) /\ ~is_page_func(h, x))

\* raised only when every candidate is uncategorized
RaisesWhenAllUncategorized(keys, allow_uncategorized) ==
    keys = {""} /\ ~allow_uncategorized

\* if "" in grouped: if not allow_uncategorized: raise
RaisesUncategorized(keys, allow_uncategorized) ==
    "" \in keys /\ ~allow_uncategorized

\* grouped[uncategorized_name] = grouped.pop("")
RenameUncategorized(grouped) ==
    LET others == SelectSeq(grouped.order, LAMBDA key : key # "")
        keys == {others[k] : k \in 1..Len(others)}
    IN  [order |-> IF uncategorized_name \in keys THEN others
                   ELSE Append(others, uncategorized_name),
         posts |-> [key \in keys \cup {uncategorized_name} |->
                       IF key = uncategorized_name THEN grouped.posts[""]
                       ELSE grouped.posts[key]]]

\* the loop of build_category_pages over grouped.items(): an AggregatedPage
\* for each category, added to the parent and paginated
RECURSIVE CategoryPages(_, _, _, _, _)
CategoryPages(h, s, grouped, todo, done) ==
    IF todo = <<>> THEN [h |-> h, err |-> "none", all |-> done.all, pages |-> done.pages,
                         called |-> done.called]
    ELSE
    LET category == Head(todo)
    IN  Bind([made \in {NewAggregatedPage(h, category, grouped.posts[category])} |->
        Bind([r1 \in {add_child(made.h, Root, made.node)} |->
             IF r1.err # "none"
             THEN [h |-> r1.h, err |-> r1.err, all |-> done.all, pages |-> done.pages,
                   called |-> Append(done.called, made.node)]
             ELSE IF s.num_posts_per_page > 0
             THEN Bind([r2 \in {paginate(r1.h, made.node, s.num_posts_per_page)} |->
                       IF r2.err # "none"
                       THEN [h |-> r2.h, err |-> r2.err, all |-> done.all,
                             pages |-> done.pages,
                             called |-> Append(done.called, made.node)]
                       ELSE CategoryPages(r2.h, s, grouped, Tail(todo),
                                [all |-> done.all \o r2.pages,
                                 pages |-> done.pages @@ (category :> r2.pages[1]),
                                 called |-> Append(done.called, made.node) \o r2.pages])])
             ELSE CategoryPages(r1.h, s, grouped, Tail(todo),
                      [all |-> Append(done.all, made.node),
                       pages |-> done.pages @@ (category :> made.node),
                       called |-> Append(done.called, made.node)])])])

\* AggregatedGroupsPage(category_list_page_name, grouped)
NewAggregatedGroupsPage(h, page_name) ==
    LET a == CHOOSE x \in GroupsPages :
                 x \notin h.nodes /\ \A y \in GroupsPages \ h.nodes : x <= y
    IN  [node |-> a,
         h |-> [h EXCEPT !.nodes = @ \cup {a},
                         !.name = @ @@ (a :> page_name),
                         !.parent = @ @@ (a :> None)]]

\* SiteGenerator.build_category_pages, with the root as parent and the
\* default accessor, names and leaves filter
build_category_pages(h, s, allow_uncategorized, group_pages) ==
    Bind([read \in {GroupedBy(CategoryCandidates(h),
                                [x \in DOMAIN s.front_matter |-> category_accessor(s, x)])} |->
    IF RaisesUncategorized(DOMAIN read.posts, allow_uncategorized)
    THEN [h |-> h, site |-> s, err |-> "UncategorizedNotAllowedError"]
    ELSE
    Bind([renamed \in {IF "" \in DOMAIN read.posts THEN RenameUncategorized(read) ELSE read} |->
    Bind([grouped \in {[order |-> renamed.order,
          posts |-> [key \in DOMAIN renamed.posts |->
                        SortedDescending(renamed.posts[key], s.publish_date)]]} |->
    Bind([built \in {CategoryPages(h, s, grouped, grouped.order,
                                   [all |-> <<>>, pages |-> <<>>, called |-> <<>>])} |->
    IF built.err # "none" THEN [h |-> built.h, site |-> s, err |-> built.err]
    ELSE
    Bind([folder \in {IF group_pages THEN group(built.h, Root, category_list_page_name, built.all)
         ELSE [h |-> built.h, group |-> None, err |-> "none"]} |->
    IF folder.err # "none" THEN [h |-> folder.h, site |-> s, err |-> folder.err]
    ELSE IF DOMAIN built.pages = {}
    THEN [h |-> folder.h,
          site |-> [s EXCEPT !.categories =
                       <<[order |-> grouped.order, posts_by_category |-> grouped.posts,
                          pages_by_category |-> built.pages, list_page |-> None,
                          folder |-> folder.group]>>,
                       !.post_content_tree_entity_create = @ \o built.called],
          err |-> "none"]
    ELSE
    Bind([list \in {NewAggregatedGroupsPage(folder.h, category_list_page_name)} |->
    Bind([placed \in {IF folder.group # None THEN set_index_page(list.h, folder.group, list.node)
         ELSE add_child(list.h, Root, list.node)} |->
    [h |-> placed.h,
     site |-> IF placed.err # "none" THEN s
              ELSE [s EXCEPT !.categories =
                       <<[order |-> grouped.order, posts_by_category |-> grouped.posts,
                          pages_by_category |-> built.pages, list_page |-> list.node,
                          folder |-> folder.group]>>,
                       !.post_content_tree_entity_create =
                           (@ \o built.called) \o <<list.node>>],
     err |-> placed.err]])])])])])])])

\* ---------------------------------------------------------------- archive
\* SiteGenerator.posts: the leaves that are PageOrPost and not pages
posts(h) ==
    SelectSeq(leaves(h, Root, TRUE), LAMBDA x : IsPageOrPost(x) /\ ~is_page_func(h, x))

\* %B: the full month name
MonthNames ==
    <<"January", "February", "March", "April", "May", "June", "July", "August",
      "September", "October", "November", "December">>

\* the years a publish date can be of
FirstYear == 2023
LastYear == 2024

\* publish_date.strftime("%B, %Y")
strftime_month(date) == MonthNames[Month(date)] \o ", " \o ToString(Year(date))

\* publish_date.strftime("%Y")
strftime_year(date) == ToString(Year(date))

\* the place of each month name in alphabetical order
AlphabeticalPlace ==
    <<5, 4, 8, 1, 9, 7, 6, 2, 12, 11, 10, 3>>

\* the key string itself as sort key: month name first, then the year
LexicalMonthKey(key) ==
    LET period == CHOOSE ym \in (FirstYear..LastYear) \X (1..12) :
                      MonthNames[ym[2]] \o ", " \o ToString(ym[1]) = key
    IN  AlphabeticalPlace[period[2]] * 10000 + period[1]

\* datetime.strptime(key, "%B, %Y"): the first day of the month the key
\* names
strptime_month(key) ==
    LET period == CHOOSE ym \in (FirstYear..LastYear) \X (1..12) :
                      MonthNames[ym[2]] \o ", " \o ToString(ym[1]) = key
    IN  period[1] * 10000 + period[2] * 100 + 1

\* datetime.strptime(key, "%Y"): the first day of the year the key names
strptime_year(key) ==
    LET year == CHOOSE y \in FirstYear..LastYear : ToString(y) = key
    IN  year * 10000 + 101

\* OrderedDict(sorted(buckets.items(), reverse=1, key=...)), parsed[key]
\* being strptime of the key
SortedBuckets(buckets, parsed) ==
    [order |-> SortedDescending(buckets.order, parsed), posts |-> buckets.posts]

\* SiteGenerator.build_archive with the default formats
build_archive(h, s) ==
    Bind([todo \in {posts(h)} |->
    Bind([by_month \in {GroupedBy(todo,
              [x \in DOMAIN s.publish_date |-> strftime_month(s.publish_date[x])])} |->
    Bind([by_year \in {GroupedBy(todo,
              [x \in DOMAIN s.publish_date |-> strftime_year(s.publish_date[x])])} |->
    [h |-> h,
     site |-> [s EXCEPT !.archive =
                  <<[posts_by_month |-> SortedBuckets(by_month,
                         [key \in DOMAIN by_month.posts |-> strptime_month(key)]),
                     posts_by_year |-> SortedBuckets(by_year,
                         [key \in DOMAIN by_year.posts |-> strptime_year(key)]),
                     pages_by_month |-> <<>>, pages_by_year |-> <<>>,
                     list_page |-> None]>>],
     err |-> "none"]])])])

\* "archive", the default archive_list_page_name
archive_list_page_name == "archive"

\* hasattr(self, "archive"): __init__ sets the attribute, to None
hasattr_archive(s) == s.constructed

\* list(posts.items()) if selected else []
ArchiveItems(buckets, selected) ==
    IF selected THEN buckets ELSE [order |-> <<>>, posts |-> <<>>]

\* the loops of build_archive_pages over the keys of one archive: their
\* body is that of the loop of build_category_pages (an AggregatedPage of
\* the key's posts, the callback, parent.add_child, paginate)
ArchivePages(h, s, archive, called) ==
    CategoryPages(h, s, archive, archive.order,
                  [all |-> <<>>, pages |-> <<>>, called |-> called])

\* SiteGenerator.build_archive_pages, with the root as parent, the default
\* list page name and both archives displayed in the list page
build_archive_pages(h, s, by_month, by_year, group_pages) ==
    IF ~hasattr_archive(s)
    THEN [h |-> h, site |-> s, err |-> "ArchivePagesError"]
    ELSE IF s.archive = <<>>
    THEN [h |-> h, site |-> s, err |-> "AttributeError"]   \* None has no posts_by_month
    ELSE
    Bind([archives \in {<<ArchiveItems(s.archive[1].posts_by_month, by_month),
                          ArchiveItems(s.archive[1].posts_by_year, by_year)>>} |->
    IF archives[1].order = <<>> /\ archives[2].order = <<>>
    THEN [h |-> h, site |-> s, err |-> "ArchivePagesError"]
    ELSE
    Bind([months \in {ArchivePages(h, s, archives[1], <<>>)} |->
    IF months.err # "none" THEN [h |-> months.h, site |-> s, err |-> months.err]
    ELSE
    Bind([years \in {ArchivePages(months.h, s, archives[2], months.called)} |->
    IF years.err # "none" THEN [h |-> years.h, site |-> s, err |-> years.err]
    ELSE
    Bind([folder \in {IF group_pages
                      THEN group(years.h, Root, archive_list_page_name,
                                 months.all \o years.all)
                      ELSE [h |-> years.h, group |-> None, err |-> "none"]} |->
    IF folder.err # "none" THEN [h |-> folder.h, site |-> s, err |-> folder.err]
    ELSE IF months.all = <<>> /\ years.all = <<>>
    THEN [h |-> folder.h,
          site |-> [s EXCEPT !.archive[1].pages_by_month = months.all,
                             !.archive[1].pages_by_year = years.all,
                             !.post_content_tree_entity_create = @ \o years.called],
          err |-> "none"]
    ELSE
    Bind([list \in {NewAggregatedGroupsPage(folder.h, archive_list_page_name)} |->
    Bind([placed \in {IF folder.group # None
                      THEN set_index_page(list.h, folder.group, list.node)
                      ELSE add_child(list.h, Root, list.node)} |->
    [h |-> placed.h,
     site |-> IF placed.err # "none" THEN s
              ELSE [s EXCEPT !.archive[1].pages_by_month = months.all,
                             !.archive[1].pages_by_year = years.all,
                             !.archive[1].list_page = list.node,
                             !.post_content_tree_entity_create =
                                 (@ \o years.called) \o <<list.node>>],
     err |-> placed.err]])])])])])])

\* ---------------------------------------------------------------- navigation
\* the elements of a list
Elements(list) == {list[i] : i \in 1..Len(list)}

\* [p.path for p in list(self.categories.all_pages) + [list_page]]
CategoryPagePaths(h, s) ==
    IF s.categories = <<>> THEN {}
    ELSE LET built == s.categories[1]
             all_pages == {built.pages_by_category[category] :
                              category \in DOMAIN built.pages_by_category}
         IN  {path(h, p) : p \in all_pages \cup ({built.list_page} \ {None})}

\* [p.path for p in self.archive.all_pages + [list_page]]
ArchivePagePaths(h, s) ==
    IF s.archive = <<>> THEN {}
    ELSE LET built == s.archive[1]
             all_pages == Elements(built.pages_by_month \o built.pages_by_year)
         IN  {path(h, p) : p \in all_pages \cup ({built.list_page} \ {None})}

is_category_page_func(h, s, x) == path(h, x) \in CategoryPagePaths(h, s)
is_archive_page_func(h, s, x) == path(h, x) \in ArchivePagePaths(h, s)

\* every page of a pagination passes
IsAnyPage(h, x) == TRUE

\* x.pagination.page_number == 1 if hasattr(x, "pagination") else True
IsFirstPage(h, x) == IsPaginated(x) => h.pagination[x].page_number = 1

\* the default filter_func of build_navigation, asked of the copy of node x
\* that Folder.filter made: the copy has the class, the path and the
\* parent's class of x, and it is not the object that is the index page of
\* self.content_tree
filter_func(h, s, x, exclude_categories, exclude_archive) ==
    /\ \/ /\ ~IsFolder(x)
          /\ is_page_func(h, x)
          /\ ~is_category_page_func(h, s, x)
          /\ ~is_archive_page_func(h, s, x)
       \/ IsFolder(x)
       \/ ~IsFolder(x) /\ is_index_page(h, x)
       \/ ~exclude_categories /\ is_category_page_func(h, s, x)
       \/ ~exclude_archive /\ is_archive_page_func(h, s, x)
    /\ CopyOf(x) # h.index_page[Root]
    /\ IsFirstPage(h, x)

\* Folder.as_dict with the map_leaf and map_folder of build_navigation, on
\* the filtered copy: one entry for each name among the children, at the
\* place of the first child of that name and made of the last one.  An
\* entry is kept with the node its child is the copy of, whose href is the
\* child's.
RECURSIVE as_dict(_, _)
as_dict(h, self) ==
    LET kids == h.children[self]
        names == KeysInOrder(kids, [x \in Elements(kids) |-> h.name[x]])
        LastNamed(n) ==
            kids[CHOOSE i \in 1..Len(kids) :
                     h.name[kids[i]] = n /\ \A j \in (i + 1)..Len(kids) : h.name[kids[j]] # n]
    IN  [k \in 1..Len(names) |->
            Bind([p \in {LastNamed(names[k])} |->
                IF IsFolder(p) /\ h.children[p] # <<>>
                THEN [name |-> names[k], node |-> p % CopyOffset, leaf |-> FALSE,
                      self |-> IF h.index_page[p] # None
                               THEN PathString(href(h, p % CopyOffset)) ELSE "None",
                      children |-> as_dict(h, p)]
                ELSE [name |-> names[k], node |-> p % CopyOffset, leaf |-> TRUE,
                      self |-> PathString(href(h, p % CopyOffset)),
                      children |-> <<>>]])]

\* SiteGenerator.build_navigation with the default filter_func and no
\* extra_filter_func; the filtered copy is dropped once the dict is made
build_navigation(h, s, exclude_categories, exclude_archive) ==
    Bind([accept \in {{x \in Elements(flat(h, Root, TRUE)) :
                          filter_func(h, s, x, exclude_categories, exclude_archive)}} |->
    Bind([navigatable_tree \in {filter(h, Root, accept, TRUE, TRUE)} |->
         IF navigatable_tree.err # "none"
         THEN [h |-> h, site |-> s, err |-> navigatable_tree.err]
         ELSE [h |-> h,
               site |-> [s EXCEPT !.navigation =
                            <<as_dict(navigatable_tree.h, navigatable_tree.node)>>],
               err |-> "none"]])])

\* ---------------------------------------------------------------- render
\* sorted(todo, key=...), key[x] being the sort key of x: the sort is stable
SortedAscending(todo, key) ==
    LET Position(i) ==
            1 + Cardinality({j \in 1..Len(todo) :
                    \/ key[todo[j]] < key[todo[i]]
                    \/ key[todo[j]] = key[todo[i]] /\ j < i})
    IN  [k \in 1..Len(todo) |-> todo[CHOOSE i \in 1..Len(todo) : Position(i) = k]]

\* len(getattr(x, "aggregated_posts", []) + list(getattr(x,
\* "aggregated_grouped_posts", {}).keys())): what render sorts the leaves by
AggregatedCount(h, s, x) ==
    IF x \in DOMAIN h.aggregated_posts THEN Len(h.aggregated_posts[x])
    ELSE IF s.categories # <<>> /\ s.categories[1].list_page = x
    THEN Len(s.categories[1].order)
    ELSE IF s.archive # <<>> /\ s.archive[1].list_page = x
    THEN Len(s.archive[1].posts_by_month.order) + Len(s.archive[1].posts_by_year.order)
    ELSE 0

\* AbstractPageOrPost.render_path, from the build directory on
render_path(h, self) ==
    Append(IF h.parent[self] # None /\ is_index_page(h, self)
           THEN path(h, h.parent[self]) ELSE path(h, self),
           "index.html")

\* the paths render writes a leaf to: its render path and, for the first
\* of several paginated pages, "page1" below the folder when it is the
\* index page and the path above its own when it is not
LeafPaths(h, leaf) ==
    LET first == render_path(h, leaf)
        directory == SubSeq(first, 1, Len(first) - 1)
    IN  IF IsPaginated(leaf) /\ h.pagination[leaf].page_number = 1
             /\ h.pagination[leaf].max_page_number # 1
        THEN IF h.parent[leaf] # None /\ h.index_page[h.parent[leaf]] = leaf
             THEN <<first, directory \o <<"page1", "index.html">>>>
             ELSE <<first, SubSeq(directory, 1, Len(directory) - 1) \o <<"index.html">>>>
        ELSE <<first>>

\* the files written for the leaves, in the order of the leaves
RECURSIVE LeafFiles(_, _)
LeafFiles(h, todo) ==
    IF todo = <<>> THEN <<>>
    ELSE LET paths == LeafPaths(h, Head(todo))
         IN  [k \in 1..Len(paths) |->
                 [path |-> paths[k], template |-> "default.html", page |-> Head(todo)]]
             \o LeafFiles(h, Tail(todo))

\* a placeholder for every folder without an index page
NoIndexPage(h, folder) == h.index_page[folder] = None

\* if not folder.index_page: if not folder.leaves(): continue
NeedsNotFoundPage(h, folder) ==
    h.index_page[folder] = None /\ leaves(h, folder, TRUE) # <<>>

\* the "not found" files written for the folders, in the order of the folders
RECURSIVE NotFoundFiles(_, _)
NotFoundFiles(h, todo) ==
    IF todo = <<>> THEN <<>>
    ELSE (IF NeedsNotFoundPage(h, Head(todo))
          THEN <<[path |-> Append(path(h, Head(todo)), "index.html"),
                  template |-> "404.html", page |-> None]>>
          ELSE <<>>)
         \o NotFoundFiles(h, Tail(todo))

\* SiteGenerator.render with the default template accessor: the build
\* directory is emptied, every leaf is rendered, then the placeholders
render(h, s) ==
    Bind([todo \in {leaves(h, Root, TRUE)} |->
    Bind([sorted \in {SortedAscending(todo,
                          [x \in {todo[i] : i \in 1..Len(todo)} |->
                              AggregatedCount(h, s, x)])} |->
    Bind([folders \in {SelectSeq(flat(h, Root, FALSE) \o <<Root>>, IsFolder)} |->
    [h |-> h,
     site |-> [s EXCEPT !.build_directory =
                  LeafFiles(h, sorted) \o NotFoundFiles(h, folders)],
     err |-> "none"]])])])

\* One method of the generator: it runs when nothing before it raised (an
\* exception ends the run).  last.arg is 1 when arg holds.
DoSite(r, op, arg, args) ==
    /\ last.err = "none"
    /\ Store(r.h)
    /\ site' = r.site
    /\ last' = [op |-> op, node |-> None, arg |-> IF arg THEN 1 ELSE 0, args |-> args,
                err |-> r.err, pages |-> <<>>, changed |-> TRUE]
    /\ steps' = steps + 1

\* no tree has been read and no generator constructed
InitSite ==
    /\ nodes = {}
    /\ name = <<>>
    /\ parent = <<>>
    /\ children = <<>>
    /\ index_page = <<>>
    /\ aggregated_posts = <<>>
    /\ pagination = <<>>
    /\ last = NoOp
    /\ steps = 0
    /\ site = NoSite

SiteGeneratorInit(config, directory) ==
    /\ last.op = "init"
    /\ \E r \in {site_generator_init(Heap, config, directory)} :
          DoSite(r, "__init__", TRUE, <<config>>)

ProcessContentTree ==
    /\ last.op = "__init__"
    /\ last.err = "none"
    /\ \E r \in {process_content_tree(Heap, site)} :
          DoSite(r, "process_content_tree", TRUE, <<>>)

AggregatePosts ==
    /\ last.op = "process_content_tree"
    /\ \E r \in {aggregate_posts(Heap, site)} :
          DoSite(r, "aggregate_posts", r.locally, <<>>)

BuildCategoryPages(allow_uncategorized, group_pages) ==
    /\ last.op \in {"process_content_tree", "aggregate_posts"}
    /\ last.err = "none"
    /\ \E r \in {build_category_pages(Heap, site, allow_uncategorized, group_pages)} :
          DoSite(r, "build_category_pages", allow_uncategorized,
                 <<allow_uncategorized, group_pages>>)

BuildArchive ==
    /\ last.op \in {"process_content_tree", "aggregate_posts", "build_category_pages"}
    /\ last.err = "none"
    /\ \E r \in {build_archive(Heap, site)} :
          DoSite(r, "build_archive", TRUE, <<>>)

BuildArchivePages(by_month, by_year, group_pages) ==
    /\ last.op \in {"process_content_tree", "aggregate_posts", "build_category_pages",
                    "build_archive"}
    /\ last.err = "none"
    /\ \E r \in {build_archive_pages(Heap, site, by_month, by_year, group_pages)} :
          DoSite(r, "build_archive_pages", by_month \/ by_year,
                 <<by_month, by_year, group_pages>>)

BuildNavigation(exclude_categories, exclude_archive) ==
    /\ last.op \in {"process_content_tree", "aggregate_posts", "build_category_pages",
                    "build_archive", "build_archive_pages"}
    /\ last.err = "none"
    /\ \E r \in {build_navigation(Heap, site, exclude_categories, exclude_archive)} :
          DoSite(r, "build_navigation", TRUE, <<exclude_categories, exclude_archive>>)

Render ==
    /\ last.op \in {"process_content_tree", "aggregate_posts", "build_category_pages",
                    "build_archive", "build_archive_pages", "build_navigation"}
    /\ last.err = "none"
    /\ \E r \in {render(Heap, site)} : DoSite(r, "render", TRUE, <<>>)

\* the content directories: up to max_posts post files, each in the root,
\* in "blog" or in "notes", with a publish date and a category in its front
\* matter (dates[n] and categories[n] are those tried for n post files)
Directories(max_posts, dates, categories, index_categories) ==
    UNION {[posts : {n}, blog_index : BOOLEAN, index_category : index_categories,
            where : [1..n -> {Root, 2, 5}],
            dates : dates[n], categories : categories[n]] :
           n \in 0..max_posts}

\* publish dates of n posts: later post files newer, later post files
\* older, all of one day, alternating between two days
DatePatterns(n) ==
    {[i \in 1..n |-> 20240100 + i], [i \in 1..n |-> 20240131 - i],
     [i \in 1..n |-> 20240115], [i \in 1..n |-> 20240110 + (i % 2)]}

\* no post file names a category
NoCategories(n) == {[i \in 1..n |-> ""]}

\* settings with no whitelist and no blacklist
Settings(num_posts_per_page) ==
    [locally_aggregate_whitelist |-> {}, locally_aggregate_blacklist |-> {},
     globally_aggregate_whitelist |-> {}, globally_aggregate_blacklist |-> {},
     num_posts_per_page |-> num_posts_per_page]

\* the page sizes tried: no pagination, one post a page, two posts a page
PageSizes == {-1, 1, 2}

\* ---------------------------------------------------------------- SpecAggregate
\* the whitelists and blacklists tried: a folder by its name, a folder by
\* its path, both lists of a pass at once
ListSettings ==
    LET S == Settings(-1)
    IN  {S,
         [S EXCEPT !.locally_aggregate_whitelist = {"blog"}],
         [S EXCEPT !.locally_aggregate_whitelist = {"/blog/notes"}],
         [S EXCEPT !.locally_aggregate_blacklist = {"blog"}],
         [S EXCEPT !.locally_aggregate_blacklist = {"/blog/notes"}],
         [S EXCEPT !.locally_aggregate_whitelist = {"blog"},
                   !.locally_aggregate_blacklist = {"notes"}],
         [S EXCEPT !.globally_aggregate_whitelist = {"notes"}],
         [S EXCEPT !.globally_aggregate_whitelist = {"/blog"}],
         [S EXCEPT !.globally_aggregate_blacklist = {"notes"}],
         [S EXCEPT !.globally_aggregate_blacklist = {"/blog"}],
         [S EXCEPT !.globally_aggregate_whitelist = {"blog"},
                   !.globally_aggregate_blacklist = {"notes"}]}

\* each of them without pagination, and pagination without them and with
\* a whitelist
AggregateSettings ==
    ListSettings
        \cup {Settings(n) : n \in PageSizes}
        \cup {[Settings(n) EXCEPT !.locally_aggregate_whitelist = {"notes"}] :
                 n \in PageSizes}

NextAggregate ==
    \/ \E config \in AggregateSettings,
          directory \in Directories(MaxSitePosts,
                                    [n \in 0..MaxSitePosts |-> DatePatterns(n)],
                                    [n \in 0..MaxSitePosts |-> NoCategories(n)], {""}) :
              SiteGeneratorInit(config, directory)
    \/ ProcessContentTree
    \/ AggregatePosts

SpecAggregate == InitSite /\ [][NextAggregate]_vars

\* ---------------------------------------------------------------- SpecCategories
\* the categories named in the front matter: none, "a" or "b"
CategoryNames == {"", "a", "b"}

\* the categories of n posts
SomeCategories(n) == [1..n -> CategoryNames]

\* publish dates of n posts: later post files newer
RisingDates(n) == {[i \in 1..n |-> 20240100 + i]}

NextCategories ==
    \/ \E config \in {Settings(n) : n \in {-1, 1}},
          directory \in Directories(MaxCategoryPosts,
                                    [n \in 0..MaxCategoryPosts |-> RisingDates(n)],
                                    [n \in 0..MaxCategoryPosts |-> SomeCategories(n)],
                                    CategoryNames \ {"b"}) :
              SiteGeneratorInit(config, directory)
    \/ ProcessContentTree
    \/ AggregatePosts
    \/ \E allow_uncategorized, group_pages \in BOOLEAN :
          BuildCategoryPages(allow_uncategorized, group_pages)

SpecCategories == InitSite /\ [][NextCategories]_vars

\* ---------------------------------------------------------------- SpecUncategorized
\* the categories named in the front matter: none, "a", or the very text
\* of uncategorized_name
NamesWithUncategorized == {"", "a", uncategorized_name}

NextUncategorized ==
    \/ \E directory \in Directories(MaxCategoryPosts,
                                    [n \in 0..MaxCategoryPosts |-> RisingDates(n)],
                                    [n \in 0..MaxCategoryPosts |->
                                        [1..n -> NamesWithUncategorized]],
                                    {""}) :
              SiteGeneratorInit(Settings(-1), directory)
    \/ ProcessContentTree
    \/ AggregatePosts
    \/ \E group_pages \in BOOLEAN : BuildCategoryPages(TRUE, group_pages)

SpecUncategorized == InitSite /\ [][NextUncategorized]_vars

\* ---------------------------------------------------------------- SpecArchive
\* publish dates of four months of two years
ArchiveDays == {20231205, 20240110, 20240120, 20240215}

\* the publish dates of n posts
ArchiveDates(n) == [1..n -> ArchiveDays]

NextArchive ==
    \/ \E directory \in Directories(MaxArchivePosts,
                                    [n \in 0..MaxArchivePosts |-> ArchiveDates(n)],
                                    [n \in 0..MaxArchivePosts |-> NoCategories(n)], {""}) :
          SiteGeneratorInit(Settings(-1), directory)
    \/ ProcessContentTree
    \/ AggregatePosts
    \/ BuildArchive

SpecArchive == InitSite /\ [][NextArchive]_vars

\* ---------------------------------------------------------------- SpecArchivePages
\* the archive pages are built before or after the archive
NextArchivePages ==
    \/ NextArchive
    \/ \E by_month, by_year, group_pages \in BOOLEAN :
          BuildArchivePages(by_month, by_year, group_pages)

SpecArchivePages == InitSite /\ [][NextArchivePages]_vars

\* ---------------------------------------------------------------- SpecPipeline
\* the categories of n posts of a directory taken through the pipeline
PipelineCategories(n) == [1..n -> {"", "a"}]

\* the calls of run_from_config, in its order, each of the building steps
\* taken or left out: with and without pagination, categories and archive
\* pages grouped in a folder or not
NextPipeline ==
    \/ \E config \in {Settings(n) : n \in {-1, 1}},
          directory \in Directories(MaxPipelinePosts,
                                    [n \in 0..MaxPipelinePosts |-> RisingDates(n)],
                                    [n \in 0..MaxPipelinePosts |-> PipelineCategories(n)],
                                    {""}) :
              SiteGeneratorInit(config, directory)
    \/ ProcessContentTree
    \/ AggregatePosts
    \/ \E group_pages \in BOOLEAN : BuildCategoryPages(TRUE, group_pages)
    \/ BuildArchive
    \/ /\ last.op = "build_archive"
       /\ \E by_month, by_year, group_pages \in BOOLEAN :
             BuildArchivePages(by_month, by_year, group_pages)

SpecPipeline == InitSite /\ [][NextPipeline]_vars

\* ---------------------------------------------------------------- SpecNavigation
\* the navigation is built after any of the steps of the pipeline
NextNavigation ==
    \/ NextPipeline
    \/ \E exclude_categories, exclude_archive \in BOOLEAN :
          BuildNavigation(exclude_categories, exclude_archive)

SpecNavigation == InitSite /\ [][NextNavigation]_vars

\* ---------------------------------------------------------------- SpecRender
\* the site is rendered after any of the steps of the pipeline
NextRender ==
    \/ NextPipeline
    \/ Render

SpecRender == InitSite /\ [][NextRender]_vars

\* ---------------------------------------------------------------- SpecSplit
\* the sources: every text of up to MaxSourceLen characters
Sources == UNION {[1..l -> Characters] : l \in 0..MaxSourceLen}

\* the delimiters split_front_matter is called with
Delimiters == {"+", "-"}

\* One call of a function of content_processing: last.args holds the
\* arguments and then the result.
Call(op, args, result) ==
    /\ last.op = "init"
    /\ last' = [op |-> op, node |-> None, arg |-> 0, args |-> Append(args, result),
                err |-> result.err, pages |-> <<>>, changed |-> FALSE]
    /\ steps' = steps + 1
    /\ UNCHANGED <<nodes, name, parent, children, index_page, aggregated_posts,
                   pagination, site>>

SplitFrontMatter(source, front_matter_delimiter) ==
    Call("split_front_matter", <<source, front_matter_delimiter>>,
         split_front_matter(source, front_matter_delimiter))

NextSplit ==
    /\ last.op = "init"
    /\ \E source \in Sources, d \in Delimiters : SplitFrontMatter(source, d)

SpecSplit == InitSite /\ [][NextSplit]_vars

\* ---------------------------------------------------------------- SpecParse
\* a generator made with front_matter_delimiter, which __init__ stores and
\* nothing reads, parses the source of a leaf of its content tree
ParseLeaf(front_matter_delimiter, source) ==
    Call("parse_front_matter_and_content", <<front_matter_delimiter, source>>,
         parse_front_matter_and_content(source))

NextParse ==
    /\ last.op = "init"
    /\ \E front_matter_delimiter \in Delimiters, source \in Sources :
            ParseLeaf(front_matter_delimiter, source)

SpecParse == InitSite /\ [][NextParse]_vars

\* ---------------------------------------------------------------- SpecExcerpt
\* the contents: every text of up to MaxContentLen characters, among them
\* letters, spaces, line breaks, HTML tags and the excerpt tags
ContentCharacters == {"a", " ", Newline, HtmlTag, excerpt_start_tag, excerpt_end_tag}
Contents == UNION {[1..l -> ContentCharacters] : l \in 0..MaxContentLen}

\* the suffixes: none and an ellipsis
Suffixes == {<<>>, <<".", ".", ".">>}

GetExcerpt(content, remove_html_tags, fallback_num_characters, suffix) ==
    Call("get_excerpt", <<content, remove_html_tags, fallback_num_characters, suffix>>,
         get_excerpt(content, remove_html_tags, fallback_num_characters, suffix))

NextExcerpt ==
    /\ last.op = "init"
    /\ \E content \in Contents, remove_html_tags \in BOOLEAN,
          fallback_num_characters \in 0..MaxFallback, suffix \in Suffixes :
              GetExcerpt(content, remove_html_tags, fallback_num_characters, suffix)

SpecExcerpt == InitSite /\ [][NextExcerpt]_vars

\* ================================================================ claims
\* the last operation was a paginate call that returned its pages
PaginateReturned == last.op = "paginate" /\ last.err = "none"

\* s[1] \o s[2] \o ... \o s[Len(s)]
RECURSIVE Flatten(_)
Flatten(s) == IF s = <<>> THEN <<>> ELSE Head(s) \o Flatten(Tail(s))

\* the post slices of the pages the last paginate call returned, in page order
ReturnedSlices == [k \in 1..Len(last.pages) |-> aggregated_posts[last.pages[k]]]

\* C1: for every post list and every page size N >= 1, the aggregated_posts
\* of the pages paginate returns, concatenated in page order, are the post
\* list of the paginated page: nothing lost, nothing twice, order kept.
C1_ConcatenationIsThePostList ==
    PaginateReturned => Flatten(ReturnedSlices) = aggregated_posts[last.node]

\* 25 posts paginated by 10: three pages, the last one shorter
C1_Witness ==
    /\ PaginateReturned
    /\ Len(aggregated_posts[last.node]) = 25 /\ last.arg = 10
    /\ Len(last.pages) = 3
    /\ Flatten(ReturnedSlices) = [i \in 1..25 |-> Post(i)]

\* C2: the pages paginate returns form a doubly linked chain: each page's
\* next_page is the following page and that page's prev_page is the page
\* itself, the first page has no prev_page and the last no next_page, and
\* every page's first_page and last_page are the first and the last page.
C2_ChainIsDoublyLinked ==
    PaginateReturned /\ last.pages # <<>> =>
        LET pages == last.pages
            M == Len(pages)
        IN  /\ \A i \in 1..(M - 1) :
                  /\ pagination[pages[i]].next_page = pages[i + 1]
                  /\ pagination[pages[i + 1]].prev_page = pages[i]
            /\ pagination[pages[1]].prev_page = None
            /\ pagination[pages[M]].next_page = None
            /\ \A i \in 1..M :
                  /\ pagination[pages[i]].first_page = pages[1]
                  /\ pagination[pages[i]].last_page = pages[M]

\* a chain of at least three pages: it has a page with both neighbours
C2_Witness ==
    /\ PaginateReturned
    /\ Len(last.pages) >= 3
    /\ pagination[last.pages[2]].prev_page = last.pages[1]
    /\ pagination[last.pages[2]].next_page = last.pages[3]

Without(s, x) == SelectSeq(s, LAMBDA y : y # x)

\* C4: a paginate call on page A with parent folder F that returns leaves,
\* when A was F's index page, the first page as F's index page and the
\* other pages appended to F's children; otherwise F's index page as it
\* was and F's children without A, followed by all the pages.  Either way A
\* is neither a child nor the index page of F, every page has F as parent,
\* and every other folder is as it was.
C4_PagesTakeThePlaceOfThePage ==
    [][(last'.op = "paginate" /\ last'.err = "none") =>
        LET A == last'.node
            F == parent[A]
            pages == last'.pages
        IN  /\ IF index_page[F] = A
               THEN /\ index_page'[F] = pages[1]
                    /\ children'[F] = children[F] \o Tail(pages)
               ELSE /\ index_page'[F] = index_page[F]
                    /\ children'[F] = Without(children[F], A) \o pages
            /\ ~In(A, children'[F]) /\ index_page'[F] # A
            /\ \A k \in 1..Len(pages) : parent'[pages[k]] = F
            /\ \A G \in DOMAIN children \ {F} :
                  children'[G] = children[G] /\ index_page'[G] = index_page[G]
      ]_vars

\* an index page became a chain: its first page is the index page of the
\* folder, the second a child of it next to the children it had
C4_Witness ==
    /\ PaginateReturned
    /\ Len(last.pages) >= 2
    /\ LET F == parent[last.node]
       IN  /\ index_page[F] = last.pages[1]
           /\ In(last.pages[2], children[F])
           /\ In(4, children[F])

\* C5: paginate with a page size <= 0, or on a page that pagination
\* produced (whatever the page size), raises PaginationError, constructs no
\* page and leaves every children list, index page, parent and pagination
\* record as it was.
C5_PaginationErrorChangesNothing ==
    [][(last'.op = "paginate" /\ (last'.arg <= 0 \/ IsPaginated(last'.node))) =>
           last'.err = "PaginationError" /\ Heap' = Heap]_vars

\* a page of a chain was asked to paginate itself with a page size >= 1
C5_Witness ==
    /\ last.op = "paginate" /\ IsPaginated(last.node) /\ last.arg >= 1
    /\ last.err = "PaginationError"
    /\ pagination[last.node].max_page_number >= 2

\* C6: paginate(N) with N >= 1 on an AggregatedPage with no posts raises
\* PaginationError and leaves the tree as it was, be the page an index page
\* or an ordinary child.
C6_NoPostsRaisesPaginationError ==
    [][(/\ last'.op = "paginate" /\ last'.arg >= 1
        /\ last'.node \in AggregatedPages
        /\ aggregated_posts[last'.node] = <<>>) =>
           last'.err = "PaginationError" /\ Heap' = Heap]_vars

\* the folders that hold node n as a child, and those that hold it as index page
HoldersAsChild(n) == {F \in DOMAIN children : In(n, children[F])}
HoldersAsIndex(n) == {F \in DOMAIN index_page : index_page[F] = n}
\* how many times n occurs in s
Occurrences(s, n) == Cardinality({i \in 1..Len(s) : s[i] = n})

\* the states of a node C7 and C8 speak of: it has no parent, or it is a
\* child of its parent, or it is the index page of its parent
Parentless(n) == parent[n] = None
OrdinaryChild(n) == parent[n] # None /\ In(n, children[parent[n]])
IndexPageOfParent(n) == parent[n] # None /\ index_page[parent[n]] = n

\* C7: parent_to(node, new_parent) with a folder new_parent succeeds
\* whatever node is (parentless, a child, an index page), and leaves node the
\* last child of new_parent, with new_parent as parent, and held by no
\* other folder; with a leaf new_parent it raises LeafChildError and no
\* children list and no parent changes.
C7_ParentToAlwaysMoves ==
    [][(last'.op = "parent_to" /\ last'.arg # None) =>
        LET node == last'.node
            new_parent == last'.arg
        IN  IF new_parent \in Folders
            THEN (Parentless(node) \/ OrdinaryChild(node) \/ IndexPageOfParent(node)) =>
                    /\ last'.err = "none"
                    /\ children'[new_parent] # <<>>
                    /\ children'[new_parent][Len(children'[new_parent])] = node
                    /\ parent'[node] = new_parent
                    /\ \A F \in DOMAIN children' \ {new_parent} :
                          ~In(node, children'[F]) /\ index_page'[F] # node
            ELSE /\ last'.err = "LeafChildError"
                 /\ children' = children /\ parent' = parent
      ]_vars

\* C8: F.index_page = p for a leaf p that is parentless, a child of a
\* folder G or the index page of a folder G (G may be F) leaves p the index
\* page of F with parent F, in no children list and the index page of no
\* other folder.
C8_IndexPageAssignmentDetaches ==
    [][(last'.op = "index_page" /\ last'.node \in Leaves) =>
        LET p == last'.node
            F == last'.arg
        IN  (Parentless(p) \/ OrdinaryChild(p) \/ IndexPageOfParent(p)) =>
                /\ last'.err = "none"
                /\ index_page'[F] = p
                /\ parent'[p] = F
                /\ \A G \in DOMAIN children' : ~In(p, children'[G])
                /\ \A G \in DOMAIN index_page' \ {F} : index_page'[G] # p
      ]_vars

\* C9: in every state each node is held at most once, counting every
\* folder's children list and index page together, and the folder that
\* holds it is the node's parent.
C9_HeldOnceByItsParent ==
    \A n \in nodes :
        /\ Cardinality(HoldersAsChild(n) \cup HoldersAsIndex(n)) <= 1
        /\ HoldersAsChild(n) \cap HoldersAsIndex(n) = {}
        /\ \A F \in HoldersAsChild(n) : Occurrences(children[F], n) = 1
        /\ \A F \in HoldersAsChild(n) \cup HoldersAsIndex(n) : parent[n] = F

\* a page of a chain moved on: the second page of a chain whose first page
\* is an index page is now held by another folder than its first holder
C9_Witness ==
    \E p \in nodes \cap PaginatedPool :
        /\ pagination[p].page_number = 2
        /\ IndexPageOfParent(pagination[p].first_page)
        /\ HoldersAsChild(p) \cup HoldersAsIndex(p) # {}
        /\ parent[p] # parent[pagination[p].first_page]

\* C10: in every state, the index page of a folder has the folder's path as
\* href; a node that is not a paginated page, has a parent and is not an
\* index page has its path as href, which is its parent's path followed by
\* its name; a node without a parent has path "/".
C10_HrefAndPath ==
    /\ \A F \in DOMAIN index_page :
          index_page[F] # None =>
              /\ ~IsPathError(path(Heap, F))
              /\ href(Heap, index_page[F]) = path(Heap, F)
    /\ \A n \in nodes \ PaginatedPool :
          /\ (parent[n] # None /\ ~(n \in Leaves /\ IndexPageOfParent(n))) =>
                /\ ~IsPathError(path(Heap, n))
                /\ href(Heap, n) = path(Heap, n)
                /\ path(Heap, n) = PathJoin(path(Heap, parent[n]), name[n])
          /\ parent[n] = None => path(Heap, n) = <<>>

\* the pages of the chain page p belongs to
ChainOf(p) ==
    {q \in nodes \cap PaginatedPool :
        pagination[q].first_page = pagination[p].first_page}

\* the href the rule of C11 gives page p of a chain under folder F
RuleHref(p) ==
    LET F == parent[p]
        k == pagination[p].page_number
        M == pagination[p].max_page_number
    IN  IF index_page[F] = pagination[p].first_page
        THEN IF k = 1 THEN path(Heap, F)
             ELSE PathJoin(path(Heap, F), "page" \o ToString(k))
        ELSE IF M > 1
        THEN PathJoin(PathJoin(path(Heap, F), name[p]), "page" \o ToString(k))
        ELSE PathJoin(path(Heap, F), name[p])

\* page p and its whole chain have folder F as parent, and F has a path
ChainUnderFolder(p) ==
    /\ parent[p] # None
    /\ \A q \in ChainOf(p) : parent[q] = parent[p]
    /\ ~IsPathError(path(Heap, parent[p]))

SiblingNamesUnique ==
    \A F \in DOMAIN children :
        \A i, j \in 1..Len(children[F]) :
            i # j => name[children[F][i]] # name[children[F][j]]

\* C12: parent_to, group, index_page assignment and paginate keep sibling
\* names unique: performed on a tree in which no folder has two children
\* of the same name, they leave such a tree.
C12_SiblingNamesStayUnique ==
    [][(/\ SiblingNamesUnique
        /\ last'.op \in {"parent_to", "group", "index_page", "paginate"}) =>
            SiblingNamesUnique']_vars

\* the children of folder F that segment seg names: by name, by the position
\* token, or by the page token of a paginated child
Named(F, seg) ==
    {children[F][i] : i \in {j \in 1..Len(children[F]) :
        \/ seg = name[children[F][j]]
        \/ seg = "{" \o ToString(j - 1) \o "}"
        \/ /\ children[F][j] \in PaginatedPool
           /\ seg = "page" \o ToString(pagination[children[F][j]].page_number)}}

\* the nodes reached from the nodes of S by resolving the segments one
\* after another, each against the children of the node reached so far
RECURSIVE Resolved(_, _)
Resolved(S, segs) ==
    IF segs = <<>> THEN S
    ELSE Resolved(UNION {Named(F, Head(segs)) : F \in S \cap DOMAIN children}, Tail(segs))

\* the segments of a path: its parts without the root
SegmentsOf(path_parts) ==
    IF path_parts # <<>> /\ path_parts[1] = "/" THEN Tail(path_parts) ELSE path_parts

\* C13: Folder.get(path) returns a node reached by resolving the segments of
\* the path one after another, each against the children of the node
\* reached so far, and raises LookupError exactly when some segment
\* resolves to no child of the node reached before it; the empty path and
\* "/" return the folder itself.
C13_GetResolvesEverySegment ==
    last.op = "get" =>
        LET reached == Resolved({last.node}, SegmentsOf(last.args))
        IN  /\ (last.err = "LookupError") <=> (reached = {})
            /\ last.err = "none" => last.arg \in reached
            /\ SegmentsOf(last.args) = <<>> => last.arg = last.node

\* the folders of the subtree of folder F: F and the folders below it
RECURSIVE FoldersBelow(_)
FoldersBelow(S) ==
    LET T == S \cup {c \in Folders : \E G \in S : In(c, children[G])}
    IN  IF T = S THEN S ELSE FoldersBelow(T)

\* s with every object replaced by the one off further
Shifted(s, off) == [i \in 1..Len(s) |-> s[i] + off]

\* C14: after a recursive filter(pred) / filter_in_place(pred), in every
\* folder of the filtered subtree a leaf child is present if and only if it
\* satisfies pred, and a folder child is present if and only if it
\* satisfies pred or still has a child after its own subtree was filtered;
\* the children left keep their order.
C14_FoldersPrunedOnlyWhenEmptyAndFailing ==
    [][(last'.op \in FilterOps /\ last'.err = "none" /\ last'.args[3]) =>
        LET off == last'.arg - last'.node
            accept == last'.args[1]
            Present(G, c) == In(c + off, children'[G + off])
        IN  \A G \in FoldersBelow({last'.node}) :
                /\ \A i \in 1..Len(children[G]) :
                      LET c == children[G][i]
                      IN  Present(G, c) <=>
                              IF c \in Folders
                              THEN c \in accept \/ children'[c + off] # <<>>
                              ELSE c \in accept
                /\ children'[G + off] =
                      Shifted(SelectSeq(children[G], LAMBDA c : Present(G, c)), off)
      ]_vars

\* the predicate accepts the leaves only: "blog" fails it and stays, for
\* the child it keeps, while an emptied folder would have gone
C14_Witness ==
    /\ last.op = "filter_in_place" /\ last.err = "none"
    /\ last.args = <<Leaves, TRUE, TRUE>>
    /\ last.node = Root
    /\ In(2, children[Root])
    /\ children[2] # <<>>

\* the objects of the subtree of folder F: the folders below it, their
\* children and their index pages
SubtreeOf(F) ==
    LET Fs == FoldersBelow({F})
    IN  Fs \cup {c \in nodes : \E G \in Fs : In(c, children[G]) \/ index_page[G] = c}

\* C15: Folder.filter works on a copy.  Whatever the predicate, every
\* object of the tree keeps its name, parent, children, index page, posts
\* and pagination; and with a predicate that accepts every node the tree
\* returned has, object for object, the names, the children in their order
\* and the index pages of the original.
C15_FilterLeavesTheOriginal ==
    [][last'.op = "filter" =>
        /\ [n \in DOMAIN name |-> name'[n]] = name
        /\ [n \in DOMAIN parent |-> parent'[n]] = parent
        /\ [n \in DOMAIN children |-> children'[n]] = children
        /\ [n \in DOMAIN index_page |-> index_page'[n]] = index_page
        /\ [n \in DOMAIN aggregated_posts |-> aggregated_posts'[n]] = aggregated_posts
        /\ [n \in DOMAIN pagination |-> pagination'[n]] = pagination
        /\ (last'.err = "none" /\ nodes \subseteq last'.args[1]) =>
              LET off == last'.arg - last'.node
              IN  \A n \in SubtreeOf(last'.node) :
                      /\ name'[n + off] = name[n]
                      /\ n \in DOMAIN children =>
                            /\ children'[n + off] = Shifted(children[n], off)
                            /\ index_page'[n + off] =
                                  IF index_page[n] = None THEN None
                                  ELSE index_page[n] + off
      ]_vars

\* a predicate that rejects everything emptied the copy of the root and
\* left the root its children
C15_Witness ==
    /\ last.op = "filter" /\ last.err = "none"
    /\ last.args[1] = {} /\ last.args[3]
    /\ last.node = Root /\ last.arg = CopyOf(Root)
    /\ children[last.arg] = <<>>
    /\ Len(children[Root]) >= 2

\* the posts an index page lists, over its pagination chain when it has one
RECURSIVE ListedFrom(_, _, _)
ListedFrom(p, posts_of, pagination_of) ==
    IF p = None THEN <<>>
    ELSE posts_of[p]
         \o ListedFrom(IF p \in DOMAIN pagination_of THEN pagination_of[p].next_page
                       ELSE None,
                       posts_of, pagination_of)

\* folder F is selected by a whitelist / blacklist: with a whitelist, its
\* name or its path is in it; with a blacklist, neither is
SelectedBy(F, whitelist, blacklist) ==
    /\ whitelist # {} => name[F] \in whitelist \/ PathString(path(Heap, F)) \in whitelist
    /\ blacklist # {} => name[F] \notin blacklist /\ PathString(path(Heap, F)) \notin blacklist

\* the direct PageOrPost children of folder F
DirectPosts(F) ==
    {children[F][i] : i \in {j \in 1..Len(children[F]) : IsPageOrPost(children[F][j])}}

\* C16: aggregate_posts gets through its local pass and leaves every
\* folder below the root that had no index page and is selected by the
\* local whitelist / blacklist with an AggregatedPage as index page that
\* lists, over its pagination chain, exactly the folder's direct PageOrPost
\* children, newest first, whatever the page size and the number of children.
C16_LocalAggregationListsTheFolder ==
    [][last'.op = "aggregate_posts" =>
        /\ last'.arg = 1
        /\ \A F \in DOMAIN children \ {Root} :
              (/\ index_page[F] = None
               /\ SelectedBy(F, site.locally_aggregate_whitelist,
                             site.locally_aggregate_blacklist)) =>
                  /\ index_page'[F] \in SiteAggregatedPool \cup PaginatedPool
                  /\ LET listed == ListedFrom(index_page'[F], aggregated_posts', pagination')
                     IN  /\ {listed[i] : i \in 1..Len(listed)} = DirectPosts(F)
                         /\ Len(listed) = Cardinality(DirectPosts(F))
                         /\ \A i, j \in 1..Len(listed) :
                               i < j => site.publish_date[listed[i]]
                                            >= site.publish_date[listed[j]]
      ]_vars

\* C17: a pass configured with both its whitelist and its blacklist is
\* rejected with AggregateError before it changes anything: the local one
\* when the generator is constructed, the global one at the latest when
\* aggregate_posts comes to it, with no home page made and no globally
\* aggregated posts recorded.
C17_BothListsRejected ==
    [][/\ (/\ last'.op = "__init__"
           /\ last'.args[1].locally_aggregate_whitelist # {}
           /\ last'.args[1].locally_aggregate_blacklist # {}) =>
              last'.err = "AggregateError" /\ Heap' = Heap /\ site' = site
       /\ (/\ last'.op = "aggregate_posts"
           /\ site.globally_aggregate_whitelist # {}
           /\ site.globally_aggregate_blacklist # {}) =>
              /\ last'.err = "AggregateError"
              /\ index_page'[Root] = index_page[Root]
              /\ site'.globally_aggregated_posts = <<>>
      ]_vars

\* the candidates of the global pass: the leaves held as children (not as
\* index pages) that are not pages (their parent is not the root) and not
\* paginated pages
GlobalCandidates ==
    {x \in nodes \cap Leaves :
        /\ parent[x] # None /\ In(x, children[parent[x]])
        /\ ~is_page_func(Heap, x)
        /\ x \notin PaginatedPool}

\* C18: with a whitelist the globally aggregated posts are exactly the
\* candidates whose parent folder's name or path is in it, with a blacklist
\* exactly those whose parent folder's name and path are both not in it,
\* with neither all the candidates.
C18_GlobalSelection ==
    (/\ last.op = "aggregate_posts"
     /\ site.globally_aggregated_posts # <<>>
     /\ ~(site.globally_aggregate_whitelist # {} /\ site.globally_aggregate_blacklist # {})) =>
        LET got == site.globally_aggregated_posts[1]
        IN  /\ {got[i] : i \in 1..Len(got)} =
                  {x \in GlobalCandidates :
                      SelectedBy(parent[x], site.globally_aggregate_whitelist,
                                 site.globally_aggregate_blacklist)}
            /\ \A i, j \in 1..Len(got) : i # j => got[i] # got[j]

\* the posts build_category_pages considers: the PageOrPost leaves of the
\* tree, index pages among them, that are not pages of the root
CandidatePosts == {x \in nodes : IsPageOrPost(x) /\ parent[x] \notin {None, Root}}

\* C19: build_category_pages with allow_uncategorized=False raises
\* UncategorizedNotAllowedError exactly when some candidate post has the
\* empty category, and then the content tree is what it was and the
\* generator's categories record is still unset.
C19_UncategorizedRejectedBeforeAnyChange ==
    [][(last'.op = "build_category_pages" /\ last'.args[1] = FALSE) =>
        /\ last'.err = "UncategorizedNotAllowedError"
              <=> \E x \in CandidatePosts : site.front_matter[x].category = ""
        /\ last'.err = "UncategorizedNotAllowedError"
              => Heap' = Heap /\ site'.categories = <<>> /\ site' = site
      ]_vars

\* uncategorized posts next to categorized ones were rejected
C19_Witness ==
    /\ last.op = "build_category_pages"
    /\ last.err = "UncategorizedNotAllowedError"
    /\ \E x, y \in CandidatePosts :
          site.front_matter[x].category = "" /\ site.front_matter[y].category = "a"

\* the month a month key names, as <<year, month>>
DenotedMonth(key) ==
    CHOOSE ym \in (FirstYear..LastYear) \X (1..12) :
        key = MonthNames[ym[2]] \o ", " \o ToString(ym[1])

\* the year a year key names
DenotedYear(key) == CHOOSE y \in FirstYear..LastYear : key = ToString(y)

\* how often post x is listed in the buckets
TimesListed(buckets, x) ==
    LET places == {<<k, i>> \in (1..Len(buckets.order)) \X (1..(MaxArchivePosts + 1)) :
                      /\ i <= Len(buckets.posts[buckets.order[k]])
                      /\ buckets.posts[buckets.order[k]][i] = x}
    IN  Cardinality(places)

\* C20: after build_archive every post is listed once in the month buckets
\* and once in the year buckets, under the key of its publish date's month
\* and year, the buckets list nothing else, and both maps iterate from the
\* most recent period to the oldest.
C20_ArchiveBucketsChronological ==
    (last.op = "build_archive" /\ site.archive # <<>>) =>
        LET by_month == site.archive[1].posts_by_month
            by_year == site.archive[1].posts_by_year
        IN  /\ \A x \in CandidatePosts :
                  /\ TimesListed(by_month, x) = 1
                  /\ TimesListed(by_year, x) = 1
                  /\ \E k \in 1..Len(by_month.order) :
                        /\ In(x, by_month.posts[by_month.order[k]])
                        /\ DenotedMonth(by_month.order[k])
                              = <<Year(site.publish_date[x]), Month(site.publish_date[x])>>
                  /\ \E k \in 1..Len(by_year.order) :
                        /\ In(x, by_year.posts[by_year.order[k]])
                        /\ DenotedYear(by_year.order[k]) = Year(site.publish_date[x])
            /\ \A x \in nodes \ CandidatePosts :
                  TimesListed(by_month, x) = 0 /\ TimesListed(by_year, x) = 0
            /\ \A i, j \in 1..Len(by_month.order) :
                  i < j => LET a == DenotedMonth(by_month.order[i])
                               b == DenotedMonth(by_month.order[j])
                           IN  a[1] > b[1] \/ (a[1] = b[1] /\ a[2] > b[2])
            /\ \A i, j \in 1..Len(by_year.order) :
                  i < j => DenotedYear(by_year.order[i]) > DenotedYear(by_year.order[j])

\* an archive of three months of two years, February before January
C20_Witness ==
    /\ last.op = "build_archive"
    /\ site.archive # <<>>
    /\ site.archive[1].posts_by_month.order
          = <<"February, 2024", "January, 2024", "December, 2023">>
    /\ site.archive[1].posts_by_year.order = <<"2024", "2023">>

\* following parent references from n for at most fuel steps reaches a node
\* with no parent
RECURSIVE ReachesTop(_, _)
ReachesTop(n, fuel) ==
    IF parent[n] = None THEN TRUE
    ELSE IF fuel = 0 THEN FALSE
    ELSE ReachesTop(parent[n], fuel - 1)

\* C28: the parent relation is acyclic: from every node the parent
\* references lead to a parentless node in finitely many steps, whatever
\* parent_to, add_child, group and index_page assignments were made.
C28_ParentRelationAcyclic ==
    \A n \in nodes : ReachesTop(n, Cardinality(nodes))

\* C29: back-references never dangle: a node whose parent is folder F is
\* one of F's children or F's index page.
C29_ParentHoldsTheNode ==
    \A n \in nodes :
        parent[n] # None =>
            \/ In(n, children[parent[n]])
            \/ index_page[parent[n]] = n

\* the lines of a text: the pieces between its line breaks, a line break at
\* the very end opening no further line
LinesOf(text) ==
    LET breaks == {i \in 1..Len(text) : text[i] = Newline}
        ends == breaks \cup (IF text # <<>> /\ text[Len(text)] # Newline
                              THEN {Len(text) + 1} ELSE {})
        StartOf(e) == 1 + (IF \E b \in breaks : b < e
                           THEN CHOOSE b \in breaks :
                                    b < e /\ \A c \in breaks : c < e => c <= b
                           ELSE 0)
    IN  [k \in 1..Cardinality(ends) |->
            LET e == CHOOSE x \in ends : Cardinality({y \in ends : y < x}) = k - 1
            IN  SubSeq(text, StartOf(e), e - 1)]

\* a non-empty line made only of d
MadeOnlyOf(line, d) == line # <<>> /\ \A i \in 1..Len(line) : line[i] = d

\* C23: split_front_matter on an empty source gives no front matter and an
\* empty body; on a source whose first line is not a non-empty line of
\* delimiters it gives no front matter and the source as it is; otherwise
\* the front-matter text is the lines strictly between the first line and
\* the next delimiter line, and the body the lines after that line, joined
\* by line breaks.
C23_SplitFrontMatter ==
    last.op = "split_front_matter" =>
        LET source == last.args[1]
            d == last.args[2]
            got == last.args[3]
            lines == LinesOf(source)
            closings == {c \in 2..Len(lines) : MadeOnlyOf(lines[c], d)}
        IN  IF source = <<>>
            THEN got.err = "none" /\ got.evaluated = {} /\ got.content = <<>>
            ELSE IF ~MadeOnlyOf(lines[1], d)
            THEN got.err = "none" /\ got.evaluated = {} /\ got.content = source
            ELSE closings # {} =>
                    LET c == CHOOSE x \in closings : \A y \in closings : x <= y
                    IN  /\ LinesOf(got.front_matter) = SubSeq(lines, 2, c - 1)
                        /\ got.err = "none" =>
                              /\ got.content = JoinLines(SubSeq(lines, c + 1, Len(lines)))
                              /\ got.evaluated = {} <=>
                                    \A k \in 2..(c - 1) : lines[k] = <<>>

\* a source with front matter between two delimiter lines and a body
C23_Witness ==
    /\ last.op = "split_front_matter"
    /\ last.args[1] = <<"+", Newline, "x=1", Newline, "+", Newline, "-">>
    /\ last.args[2] = "+"
    /\ last.args[3].evaluated = {"x"}
    /\ last.args[3].content = <<"-">>

\* the content with its HTML taken out and its line breaks turned to spaces
Stripped(content) ==
    LET kept == SelectSeq(content, LAMBDA char : char # HtmlTag)
    IN  [i \in 1..Len(kept) |-> IF kept[i] = Newline THEN " " ELSE kept[i]]

\* C26: on content without excerpt tags get_excerpt returns, before the
\* suffix, the stripped content up to the first space at or after position
\* fallback_num_characters, and the whole stripped content when there is
\* no such space.
C26_ExcerptNeverCutsAWord ==
    (/\ last.op = "get_excerpt"
     /\ ~In(excerpt_start_tag, last.args[1])
     /\ ~In(excerpt_end_tag, last.args[1])) =>
        LET clean == Stripped(last.args[1])
            fallback == last.args[3]
            spaces == {i \in (fallback + 1)..Len(clean) : clean[i] = " "}
            expected == IF spaces = {} THEN clean
                        ELSE SubSeq(clean, 1,
                                 (CHOOSE i \in spaces : \A j \in spaces : i <= j) - 1)
        IN  last.args[5].excerpt = expected \o last.args[4]

\* C25: a generator configured with front_matter_delimiter d parses every
\* leaf with d: a source whose first line is made only of d, closed by a
\* later such line, has the lines after the closing line as its body, and
\* when d is not '+' a source whose first line is made only of '+' has no
\* front matter and the whole source as its body.
C25_ConfiguredDelimiterUsed ==
    last.op = "parse_front_matter_and_content" =>
        LET d == last.args[1]
            source == last.args[2]
            got == last.args[3]
            lines == LinesOf(source)
            closings == {c \in 2..Len(lines) : MadeOnlyOf(lines[c], d)}
        IN  /\ (source # <<>> /\ MadeOnlyOf(lines[1], d) /\ closings # {}
                    /\ got.err = "none") =>
                  LET c == CHOOSE x \in closings : \A y \in closings : x <= y
                  IN  got.content = JoinLines(SubSeq(lines, c + 1, Len(lines)))
            /\ (source # <<>> /\ d # "+" /\ MadeOnlyOf(lines[1], "+")) =>
                  got.evaluated = {} /\ got.content = source

\* the places post x has in the buckets of a category map
PlacesIn(posts_by_category, x) ==
    UNION {{<<category, i>> : i \in {j \in 1..Len(posts_by_category[category]) :
                                        posts_by_category[category][j] = x}} :
           category \in DOMAIN posts_by_category}

\* C30: after build_category_pages with allow_uncategorized=True every
\* candidate post is in exactly one category bucket: the bucket named
\* uncategorized_name when its category is empty, the bucket of its
\* category otherwise.
C30_EveryPostInItsBucket ==
    (/\ last.op = "build_category_pages"
     /\ last.args[1] = TRUE
     /\ last.err = "none") =>
        \A x \in CandidatePosts :
            LET category == site.front_matter[x].category
                bucket == IF category = "" THEN uncategorized_name ELSE category
                places == PlacesIn(site.categories[1].posts_by_category, x)
            IN  /\ Cardinality(places) = 1
                /\ \A place \in places : place[1] = bucket

\* C27: build_archive_pages on a generator on which build_archive has not
\* been called raises ArchivePagesError and leaves the tree as it was, and
\* so it does when there is nothing to archive: no posts, or neither
\* by_month nor by_year selected.
C27_ArchivePagesOrdered ==
    [][last'.op = "build_archive_pages" =>
        /\ site.archive = <<>> =>
              last'.err = "ArchivePagesError" /\ Heap' = Heap
        /\ (site.archive # <<>>
                /\ (site.archive[1].posts_by_month.order = <<>>
                        \/ (~last'.args[1] /\ ~last'.args[2]))) =>
              last'.err = "ArchivePagesError" /\ Heap' = Heap
      ]_vars

\* the nodes the content tree holds: the root and what is reached from it
\* through children lists and index pages
RECURSIVE HeldBelow(_)
HeldBelow(found) ==
    LET more == UNION {{children[F][i] : i \in 1..Len(children[F])}
                           \cup ({index_page[F]} \ {None}) :
                       F \in found \cap DOMAIN children}
    IN  IF more \subseteq found THEN found ELSE HeldBelow(found \cup more)

InTheTree == HeldBelow({Root})

\* how many times the creation callback was called with node x
TimesCreated(x) ==
    Cardinality({i \in 1..Len(site.post_content_tree_entity_create) :
                    site.post_content_tree_entity_create[i] = x})

\* C24: after from_directory, aggregate_posts, build_category_pages and
\* build_archive_pages, the creation callback has been called exactly once
\* with every node the content tree holds: those read from the directory,
\* the aggregated, paginated and listing pages, and the folders that group
\* the category or archive pages.
C24_CreationCallbackOncePerNode ==
    (/\ last.op = "build_archive_pages"
     /\ last.err = "none"
     /\ site.categories # <<>>
     /\ site.globally_aggregated_posts # <<>>) =>
        \A x \in InTheTree : TimesCreated(x) = 1

\* the folders the content tree holds
FoldersInTheTree == {F \in InTheTree : IsFolder(F)}

\* folder F holds a leaf somewhere below it
HoldsALeaf(F) == \E x \in HeldBelow({F}) : ~IsFolder(x)

\* render wrote a "not found" placeholder at the path of folder F
NotFoundAt(F) ==
    \E k \in 1..Len(site.build_directory) :
        /\ site.build_directory[k].template = "404.html"
        /\ site.build_directory[k].path = Append(path(Heap, F), "index.html")

\* C22: render writes a "not found" placeholder at a folder's own path if
\* and only if the folder, the root included, has no index page and holds
\* at least one leaf below it.
C22_PlaceholderIffNoIndexAndLeaves ==
    last.op = "render" =>
        \A F \in FoldersInTheTree :
            NotFoundAt(F) <=> (index_page[F] = None /\ HoldsALeaf(F))

\* one site rendered with all three kinds of folder in it: the root with no
\* index page and leaves below it, "notes" with no index page and no
\* leaf, "blog" with its index page
C22_Witness ==
    /\ last.op = "render"
    /\ index_page[Root] = None /\ NotFoundAt(Root)
    /\ index_page[5] = None /\ ~HoldsALeaf(5) /\ ~NotFoundAt(5)
    /\ index_page[2] # None /\ HoldsALeaf(2) /\ ~NotFoundAt(2)

\* the entries of a navigation dict, those of the nested dicts among them
RECURSIVE EntriesOf(_)
EntriesOf(dict) ==
    UNION {{dict[k]} \cup EntriesOf(dict[k].children) : k \in 1..Len(dict)}

\* the pages made for the categories, and their listing page
CategoryPagesMade ==
    IF site.categories = <<>> THEN {}
    ELSE {x \in nodes \ {None} :
             \/ x = site.categories[1].list_page
             \/ \E category \in DOMAIN site.categories[1].pages_by_category :
                    x = site.categories[1].pages_by_category[category]}

\* the pages made for the archive, and their listing page
ArchivePagesMade ==
    IF site.archive = <<>> THEN {}
    ELSE {x \in nodes \ {None} :
             \/ x = site.archive[1].list_page
             \/ In(x, site.archive[1].pages_by_month)
             \/ In(x, site.archive[1].pages_by_year)}

\* C21: in the navigation built with the default predicate no entry stands
\* for a paginated page numbered above 1, none for the home index page, and
\* every entry that stands for a leaf stands for a page (a child of the
\* root) or, unless these are excluded, for a category or archive page or
\* listing page: never for an ordinary post.
C21_NavigationEntries ==
    (last.op = "build_navigation" /\ last.err = "none") =>
        \A entry \in EntriesOf(site.navigation[1]) :
            /\ entry.node \in InTheTree
            /\ IsPaginated(entry.node) => pagination[entry.node].page_number = 1
            /\ entry.node # index_page[Root]
            /\ ~IsFolder(entry.node) =>
                  \/ parent[entry.node] = Root
                       /\ entry.node \notin CategoryPagesMade \cup ArchivePagesMade
                  \/ ~last.args[1] /\ entry.node \in CategoryPagesMade
                  \/ ~last.args[2] /\ entry.node \in ArchivePagesMade
            /\ IsPageOrPost(entry.node) => parent[entry.node] = Root

\* a navigation built after aggregation, categories and archive pages, all
\* paginated, in which a page, a first category page and a first archive
\* page have entries while further pages of the paginations are in the tree
C21_Witness ==
    /\ last.op = "build_navigation" /\ last.err = "none"
    /\ site.num_posts_per_page = 1
    /\ site.globally_aggregated_posts # <<>>
    /\ \E e1, e2, e3 \in EntriesOf(site.navigation[1]) :
          /\ IsPageOrPost(e1.node)
          /\ e2.node \in CategoryPagesMade /\ IsPaginated(e2.node)
          /\ e3.node \in ArchivePagesMade /\ IsPaginated(e3.node)
    /\ \E x \in InTheTree : IsPaginated(x) /\ pagination[x].page_number > 1
    /\ \E x \in InTheTree : IsPageOrPost(x) /\ parent[x] # Root
====
